---- MODULE Spec2Model ----
(***************************************************************************)
(* Model of mlflow.projects: the backend dispatcher (run, _run), the       *)
(* supervisor of a submitted run (_wait_for, _maybe_set_run_terminated)    *)
(* and the tracking service they report to.                                *)
(*                                                                         *)
(* One invocation of run() is one behaviour: Init draws the arguments of   *)
(* run() and the state of the tracking service, the actions are the        *)
(* statements of run(), _run() and _wait_for() in program order.  Three    *)
(* parties run beside the caller: the launched child process (ProcExit),   *)
(* an independent terminator of the run such as user code inside the run   *)
(* (UserTerminate) and the operator (KeyboardInterrupt).                   *)
(***************************************************************************)
EXTENDS Integers, Sequences, FiniteSets, TLC

VARIABLES
    args,           \* the arguments of run(): never assigned after Init
    pc,             \* the statement the caller is about to execute
    backend_config, \* the caller's backend_config object
    cluster_spec_dict, \* run(): the mapping handed to _run as backend_config
    experiment_id,  \* run(): the resolved experiment id
    runs,           \* tracking service: run id -> status
    tags,           \* tracking service: set of <<run id, key, value>>
    proc,           \* the launched process or remote job
    active_run,     \* _run(): the run record obtained or created (0: none)
    submitted,      \* the SubmittedRun handed back by _run (0: none)
    command,        \* _run(): command_args, the tokens of the launched command
    wf,             \* the frame of _wait_for and _maybe_set_run_terminated
    outcome,        \* what run() did: pending, returned, or the exception
    trace,          \* every call made on a collaborator, in order
    user_wrote,     \* the independent terminator has written its status
    conda_envs,     \* conda: the prefixes of the environments that exist
    callers,        \* each caller of _get_or_create_conda_env: its frame
    conda_log,      \* every conda command issued and every return, in order
    build,          \* the frame of _build_docker_image
    fs,             \* the temporary files and directories that exist
    docker_call,    \* the frame of _get_docker_command
    resolve,        \* the frame of _resolve_experiment_id and the experiments
    kube,           \* the frame of _parse_kubernetes_config and the mappings
    auth,           \* the authenticated REST store and what it talks to
    run_cmd,        \* the frame of _invoke_mlflow_run_subprocess
    krb,            \* the Kerberos configuration file and the one generated
    metrics,        \* the BatchMetricsLogger, its clock and the tracking client
    example         \* the frame of resolve_input_example_and_signature

\* The state of one invocation of run().
dispatch_vars == <<args, pc, backend_config, cluster_spec_dict, experiment_id, runs, tags,
                   proc, active_run, submitted, command, wf, outcome, trace, user_wrote>>

\* The state of the provisioning tools, modelled on their own.
\* The state of the functions modelled one call at a time.
util_vars == <<run_cmd, krb, metrics, example>>

call_vars == <<docker_call, resolve, kube, auth, util_vars>>

tool_vars == <<conda_envs, callers, conda_log, build, fs, call_vars>>

\* None of those functions has been called.
UtilsIdle == run_cmd = <<>> /\ krb = <<>> /\ metrics = <<>> /\ example = <<>>

CallsIdle == docker_call = <<>> /\ resolve = <<>> /\ kube = <<>> /\ auth = <<>> /\ UtilsIdle

vars == <<dispatch_vars, tool_vars>>

-----------------------------------------------------------------------------
(* Values *)

NoRun == 0

RunIds == {1, 2}

\* The run that exists before run() is called (the one a caller can resume).
ExistingRunId == 1

Terminal == {"FINISHED", "FAILED", "KILLED"}

\* "None" is backend=None (omitted); "plugin" is a name the backend registry
\* knows, "unknown" one that nothing knows.
BackendNames == {"None", "local", "databricks", "kubernetes", "plugin", "unknown"}

\* The names the backend-plugin registry can load.
RegisteredBackends == {"plugin"}

MLFLOW_PROJECT_BACKEND == "mlflow.project.backend"

MLFLOW_PROJECT_ENV == "mlflow.project.env"

MLFLOW_DOCKER_IMAGE_URI == "mlflow.docker.image.uri"

MLFLOW_DOCKER_IMAGE_ID == "mlflow.docker.image.id"

\* A call on a collaborator: what was called, for which run, with which value.
Ev(e, i, v) == [ev |-> e, id |-> i, key |-> "", val |-> v, held |-> ""]

\* MlflowClient().set_tag(run_id, key, value)
TagEv(i, k, v) == [ev |-> "set_tag", id |-> i, key |-> k, val |-> v, held |-> ""]

\* MlflowClient().set_terminated(run_id, status) issued by `who`; held is the
\* status the run holds at the tracking service when the call arrives.
SetEv(who, i, status, h) == [ev |-> who, id |-> i, key |-> "", val |-> status, held |-> h]

Exc(t, m, i, n) == [type |-> t, msg |-> m, run_id |-> i, names |-> n]

Pending == [type |-> "pending", msg |-> "", run_id |-> NoRun, names |-> <<>>]

Returned(i) == [type |-> "returned", msg |-> "", run_id |-> i, names |-> <<>>]

NoConfig == [kind |-> "none", tpl_path |-> FALSE, repo |-> FALSE, run_id |-> NoRun]

ConfigMappings ==
    [kind : {"dict"}, tpl_path : BOOLEAN, repo : BOOLEAN, run_id : {NoRun, ExistingRunId}]

-----------------------------------------------------------------------------
(* The tracking collaborator *)

\* RunStatus.is_terminated
is_terminated(status) == status \in Terminal

\* MlflowClient.set_terminated: a terminal status on a run that is already
\* terminal is a no-op
set_terminated(rs, id, status) ==
    IF is_terminated(rs[id]) THEN rs ELSE [rs EXCEPT ![id] = status]

\* MlflowClient.create_run gives the run an id no run has yet
NewRunId(rs) == CHOOSE i \in RunIds : rs[i] = "absent" /\ \A j \in RunIds : rs[j] = "absent" => i <= j

\* loader.load_backend: the backend registered under the name, if any
load_backend(name) == name \in RegisteredBackends

-----------------------------------------------------------------------------
(* Initial state: the arguments of run() and the tracking service *)

Arguments ==
    [backend : BackendNames, docker_env : BOOLEAN, use_conda : BOOLEAN,
     synchronous : BOOLEAN, run_id : {NoRun, ExistingRunId}]

BackendConfigs ==
    {NoConfig} \cup ConfigMappings \cup {[c EXCEPT !.kind = "json"] : c \in ConfigMappings}

Init ==
    /\ args \in Arguments
    /\ backend_config \in BackendConfigs
    /\ pc = "run_config"
    /\ cluster_spec_dict = NoConfig
    /\ experiment_id = 0
    /\ runs = [i \in RunIds |-> IF i = ExistingRunId THEN "RUNNING" ELSE "absent"]
    /\ tags = {}
    /\ proc = "none"
    /\ active_run = NoRun
    /\ submitted = NoRun
    /\ command = <<>>
    /\ wf = [active_run |-> NoRun, status |-> "", cur_status |-> "", in_handler |-> FALSE,
             waited |-> "no"]
    /\ outcome = Pending
    /\ trace = <<>>
    /\ user_wrote = FALSE
    /\ conda_envs = {} /\ callers = <<>> /\ conda_log = <<>>
    /\ build = <<>> /\ fs = {}
    /\ CallsIdle

Raise(e) == outcome' = e /\ pc' = "done"

-----------------------------------------------------------------------------
(* run(), lines 254-281 *)

\* lines 254-264: a path to a JSON file is loaded, anything else is passed on
RunConfig ==
    /\ pc = "run_config"
    /\ IF backend_config.kind = "json"
       THEN \E parsed \in BOOLEAN :
              IF parsed
              THEN /\ cluster_spec_dict' = [backend_config EXCEPT !.kind = "dict"]
                   /\ pc' = "run_validate"
                   /\ UNCHANGED outcome
              ELSE /\ Raise(Exc("ValueError", "json", NoRun, <<>>))
                   /\ UNCHANGED cluster_spec_dict
       ELSE /\ cluster_spec_dict' = backend_config
            /\ pc' = "run_validate"
            /\ UNCHANGED outcome
    /\ UNCHANGED <<args, backend_config, experiment_id, runs, tags, proc, active_run,
                   submitted, command, wf, trace, user_wrote>>
    /\ UNCHANGED tool_vars

\* lines 266-269: the databricks validations, or the run id stored into the
\* caller's backend_config (the same object as cluster_spec_dict when it is a dict)
RunValidate ==
    /\ pc = "run_validate"
    /\ IF args.backend = "databricks"
       THEN \E valid \in BOOLEAN :
              /\ IF valid
                 THEN pc' = "run_resolve" /\ UNCHANGED outcome
                 ELSE Raise(Exc("ExecutionException", "databricks_validation", NoRun, <<>>))
              /\ UNCHANGED <<backend_config, cluster_spec_dict>>
       ELSE IF args.backend = "local" /\ args.run_id # NoRun
       THEN IF backend_config.kind = "dict"
            THEN /\ backend_config' = [backend_config EXCEPT !.run_id = args.run_id]
                 /\ cluster_spec_dict' = [cluster_spec_dict EXCEPT !.run_id = args.run_id]
                 /\ pc' = "run_resolve"
                 /\ UNCHANGED outcome
            ELSE /\ Raise(Exc("TypeError", "item_assignment", NoRun, <<>>))
                 /\ UNCHANGED <<backend_config, cluster_spec_dict>>
       ELSE /\ pc' = "run_resolve"
            /\ UNCHANGED <<outcome, backend_config, cluster_spec_dict>>
    /\ UNCHANGED <<args, experiment_id, runs, tags, proc, active_run, submitted, command,
                   wf, trace, user_wrote>>
    /\ UNCHANGED tool_vars

\* lines 271-272: _resolve_experiment_id (lines 68-83) on the experiment_name
\* and experiment_id arguments of run(), each given or not
RunResolve ==
    /\ pc = "run_resolve"
    /\ \E experiment_name \in BOOLEAN, experiment_id_given \in BOOLEAN :
         IF experiment_name /\ experiment_id_given
         THEN /\ Raise(Exc("MlflowException", "experiment_name_and_id", NoRun, <<>>))
              /\ UNCHANGED experiment_id
         ELSE /\ experiment_id' = IF experiment_name \/ experiment_id_given THEN 1 ELSE 0
              /\ pc' = "load_backend"
              /\ UNCHANGED outcome
    /\ UNCHANGED <<args, backend_config, cluster_spec_dict, runs, tags, proc, active_run,
                   submitted, command, wf, trace, user_wrote>>
    /\ UNCHANGED tool_vars

-----------------------------------------------------------------------------
(* _run(), lines 86-191 *)

\* Mutant: the docker command is assembled before the image is built.
DockerSteps_CommandFirst ==
    <<"_validate_docker_env", "_validate_docker_installation", "_get_docker_command",
      "_build_docker_image">>

\* The calls a branch of _run makes on the provisioning tools, in program order.
DockerSteps ==
    <<"_validate_docker_env", "_validate_docker_installation", "_build_docker_image",
      "_get_docker_command">>

CondaSteps == <<"_get_or_create_conda_env", "_get_conda_command">>

SyncLaunchSteps == <<"_get_entry_point_command", "Popen">>

AsyncLaunchSteps == <<"_build_mlflow_run_cmd", "Popen">>

KubernetesSteps ==
    <<"_validate_docker_env", "_validate_docker_installation", "_parse_kubernetes_config",
      "_build_docker_image", "push_image_to_registry", "_get_entry_point_command",
      "run_kubernetes_job">>

\* What one call leaves in the trace: the call itself and, for a docker build
\* that succeeded, the two image tags it sets (lines 661-666).
StepEvents(step, ok, id) ==
    <<Ev(step, id, IF ok THEN "ok" ELSE "raised")>>
    \o (IF step = "_build_docker_image" /\ ok
        THEN <<TagEv(id, MLFLOW_DOCKER_IMAGE_URI, "image_uri"),
               TagEv(id, MLFLOW_DOCKER_IMAGE_ID, "image_id")>>
        ELSE <<>>)

\* The first n steps succeed and, when there is one, step n+1 raises.
RECURSIVE Attempt(_, _, _)
Attempt(steps, n, id) ==
    IF steps = <<>> THEN <<>>
    ELSE StepEvents(Head(steps), n > 0, id)
         \o (IF n > 0 THEN Attempt(Tail(steps), n - 1, id) ELSE <<>>)

ImageTags(steps, n, id) ==
    IF \E i \in 1..n : steps[i] = "_build_docker_image"
    THEN {<<id, MLFLOW_DOCKER_IMAGE_URI, "image_uri">>, <<id, MLFLOW_DOCKER_IMAGE_ID, "image_id">>}
    ELSE {}

\* The exception a failing call raises.
StepError(step, id) ==
    CASE step = "_validate_docker_env" -> Exc("ExecutionException", "docker_env", id, <<>>)
      [] step = "_validate_docker_installation" ->
             Exc("ExecutionException", "docker_not_found", id, <<>>)
      [] step = "_parse_kubernetes_config" ->
             Exc("ExecutionException", "kubernetes_config", id, <<>>)
      [] step = "_build_docker_image" -> Exc("BuildError", "docker_build", id, <<>>)
      [] step = "_get_docker_command" -> Exc("MlflowException", "missing_env_var", id, <<>>)
      [] step = "_get_or_create_conda_env" -> Exc("ExecutionException", "conda", id, <<>>)
      [] step = "_build_mlflow_run_cmd" -> Exc("AttributeError", "parameters_items", id, <<>>)
      [] OTHER -> Exc("Exception", step, id, <<>>)

\* Mutant: docker projects are let through to databricks.
_validate_execution_environment_Accepts(docker_env, backend) == TRUE

\* lines 504-507: FALSE when the project is rejected
_validate_execution_environment(docker_env, backend) ==
    ~(docker_env /\ backend = "databricks")

\* Mutant: the message leaves out a supported backend.
supported_backends_WithoutKubernetes == <<"local", "databricks">>

\* lines 189-191: the names the unsupported-backend message lists
supported_backends == <<"local", "databricks", "kubernetes">>

\* Mutant: the repository URI is not asked for.
_parse_kubernetes_config_NoRepositoryCheck(cfg, template_exists) ==
    IF cfg.kind = "none" \/ (~cfg.tpl_path /\ ~cfg.repo /\ cfg.run_id = NoRun)
    THEN "backend_config"
    ELSE IF ~cfg.tpl_path THEN "kube-job-template-path"
    ELSE IF ~template_exists THEN "kube-job-template"
    ELSE "ok"

\* lines 591-615: "ok", or what the configuration lacks
_parse_kubernetes_config(cfg, template_exists) ==
    IF cfg.kind = "none" \/ (~cfg.tpl_path /\ ~cfg.repo /\ cfg.run_id = NoRun)
    THEN "backend_config"
    ELSE IF ~cfg.tpl_path THEN "kube-job-template-path"
    ELSE IF ~template_exists THEN "kube-job-template"
    ELSE IF ~cfg.repo THEN "repository-uri"
    ELSE "ok"

\* Mutant: the registry's backend is ignored.
DelegatesToBackend_Never(backend_name) == FALSE

\* lines 94-96: whether the run is handed to a backend of the registry
DelegatesToBackend(backend_name) == backend_name # "None" /\ load_backend(backend_name)

\* lines 93-101: a backend the registry loads runs the project itself
DispatchLoad ==
    /\ pc = "load_backend"
    /\ IF DelegatesToBackend(args.backend)
       THEN \E ok \in BOOLEAN :
              IF ok
              THEN LET id == NewRunId(runs) IN
                   /\ runs' = [runs EXCEPT ![id] = "RUNNING"]
                   /\ proc' = "running"
                   /\ trace' = trace \o <<Ev("backend.run", id, args.backend),
                                          TagEv(id, MLFLOW_PROJECT_BACKEND, args.backend)>>
                   /\ tags' = tags \cup {<<id, MLFLOW_PROJECT_BACKEND, args.backend>>}
                   /\ submitted' = id
                   /\ pc' = "run_return"
                   /\ UNCHANGED outcome
              ELSE /\ Raise(Exc("Exception", "backend.run", NoRun, <<>>))
                   /\ trace' = trace \o <<Ev("backend.run", NoRun, args.backend)>>
                   /\ UNCHANGED <<runs, proc, tags, submitted>>
       ELSE /\ pc' = "fetch"
            /\ UNCHANGED <<runs, proc, trace, tags, submitted, outcome>>
    /\ UNCHANGED <<args, backend_config, cluster_spec_dict, experiment_id, active_run,
                   command, wf, user_wrote>>
    /\ UNCHANGED tool_vars

\* lines 103-105: fetch and load the project, reject docker on databricks
DispatchFetch ==
    /\ pc = "fetch"
    /\ \E fetched \in BOOLEAN :
         IF ~fetched
         THEN /\ Raise(Exc("ExecutionException", "fetch_and_validate_project", NoRun, <<>>))
              /\ trace' = trace \o <<Ev("fetch_and_validate_project", NoRun, "raised")>>
         ELSE /\ trace' = trace \o <<Ev("fetch_and_validate_project", NoRun, "ok")>>
              /\ IF _validate_execution_environment(args.docker_env, args.backend)
                 THEN pc' = "get_or_create_run" /\ UNCHANGED outcome
                 ELSE Raise(Exc("ExecutionException", "docker_on_databricks", NoRun, <<>>))
    /\ UNCHANGED <<args, backend_config, cluster_spec_dict, experiment_id, runs, tags, proc,
                   active_run, submitted, command, wf, user_wrote>>
    /\ UNCHANGED tool_vars

\* lines 107-109: the run id to resume, None when there is none
existing_run_id(backend, cfg) ==
    IF backend = "local" THEN cfg.run_id ELSE NoRun

\* lines 107-111: resume the run named in the configuration or create one
DispatchGetRun ==
    /\ pc = "get_or_create_run"
    /\ IF args.backend = "local" /\ cluster_spec_dict.kind = "none"
       THEN /\ Raise(Exc("TypeError", "in_None", NoRun, <<>>))
            /\ UNCHANGED <<runs, active_run, trace>>
       ELSE LET existing == existing_run_id(args.backend, cluster_spec_dict)
                id == IF existing # NoRun THEN existing ELSE NewRunId(runs)
            IN /\ runs' = IF existing # NoRun THEN runs ELSE [runs EXCEPT ![id] = "RUNNING"]
               /\ active_run' = id
               /\ trace' = trace \o <<Ev("get_or_create_run", id,
                                         IF existing # NoRun THEN "existing" ELSE "created")>>
               /\ pc' = "branch"
               /\ UNCHANGED outcome
    /\ UNCHANGED <<args, backend_config, cluster_spec_dict, experiment_id, tags, proc,
                   submitted, command, wf, user_wrote>>
    /\ UNCHANGED tool_vars

\* lines 113-123, 161-165, 189-191: the backend's branch, or the error for a
\* backend that is none of the supported ones
DispatchBranch ==
    /\ pc = "branch"
    /\ IF args.backend = "databricks"
       THEN /\ tags' = tags \cup {<<active_run, MLFLOW_PROJECT_BACKEND, "databricks">>}
            /\ \E ok \in BOOLEAN :
                 /\ trace' = trace \o <<TagEv(active_run, MLFLOW_PROJECT_BACKEND, "databricks"),
                                        Ev("run_databricks", active_run,
                                           IF ok THEN "ok" ELSE "raised")>>
                 /\ IF ok
                    THEN /\ submitted' = active_run
                         /\ proc' = "running"
                         /\ pc' = "run_return"
                         /\ UNCHANGED outcome
                    ELSE /\ Raise(Exc("Exception", "run_databricks", active_run, <<>>))
                         /\ UNCHANGED <<submitted, proc>>
       ELSE IF args.backend \in {"local", "None"}
       THEN /\ tags' = tags \cup {<<active_run, MLFLOW_PROJECT_BACKEND, "local">>}
            /\ trace' = trace \o <<TagEv(active_run, MLFLOW_PROJECT_BACKEND, "local")>>
            /\ pc' = "local_env"
            /\ UNCHANGED <<submitted, proc, outcome>>
       ELSE IF args.backend = "kubernetes"
       THEN /\ tags' = tags \cup {<<active_run, MLFLOW_PROJECT_ENV, "docker">>,
                                  <<active_run, MLFLOW_PROJECT_BACKEND, "kubernetes">>}
            /\ trace' = trace \o <<TagEv(active_run, MLFLOW_PROJECT_ENV, "docker"),
                                   TagEv(active_run, MLFLOW_PROJECT_BACKEND, "kubernetes")>>
            /\ pc' = "kubernetes"
            /\ UNCHANGED <<submitted, proc, outcome>>
       ELSE /\ Raise(Exc("ExecutionException", "unsupported_execution_mode", NoRun,
                         supported_backends))
            /\ UNCHANGED <<tags, trace, submitted, proc>>
    /\ UNCHANGED <<args, backend_config, cluster_spec_dict, experiment_id, runs, active_run,
                   command, wf, user_wrote>>
    /\ UNCHANGED tool_vars

\* Mutant: use_conda is looked at before the project's docker environment.
IsolationMode_CondaFirst(docker_env, use_conda) ==
    IF use_conda THEN "conda" ELSE IF docker_env THEN "docker" ELSE "bare"

\* Mutant: use_conda is ignored, a project without docker runs under conda.
IsolationMode_IgnoresUseConda(docker_env, use_conda) ==
    IF docker_env THEN "docker" ELSE "conda"

\* lines 128, 143: the isolation mode of a local run, docker before conda
IsolationMode(docker_env, use_conda) ==
    IF docker_env THEN "docker" ELSE IF use_conda THEN "conda" ELSE "bare"

\* lines 124-147: the environment of a local run
LocalEnv ==
    /\ pc = "local_env"
    /\ IF IsolationMode(args.docker_env, args.use_conda) = "docker"
       THEN \E n \in 0..Len(DockerSteps) :
              /\ tags' = tags \cup {<<active_run, MLFLOW_PROJECT_ENV, "docker">>}
                              \cup ImageTags(DockerSteps, n, active_run)
              /\ trace' = trace \o <<TagEv(active_run, MLFLOW_PROJECT_ENV, "docker")>>
                                \o Attempt(DockerSteps, n, active_run)
              /\ IF n = Len(DockerSteps)
                 THEN /\ command' = <<"docker run image">>
                      /\ pc' = "local_launch"
                      /\ UNCHANGED outcome
                 ELSE /\ Raise(StepError(DockerSteps[n + 1], active_run))
                      /\ UNCHANGED command
       ELSE IF IsolationMode(args.docker_env, args.use_conda) = "conda"
       THEN \E n \in {0, Len(CondaSteps)} :
              /\ tags' = tags \cup {<<active_run, MLFLOW_PROJECT_ENV, "conda">>}
              /\ trace' = trace \o <<TagEv(active_run, MLFLOW_PROJECT_ENV, "conda")>>
                                \o Attempt(CondaSteps, n, active_run)
              /\ IF n = Len(CondaSteps)
                 THEN /\ command' = <<"conda activate">>
                      /\ pc' = "local_launch"
                      /\ UNCHANGED outcome
                 ELSE /\ Raise(StepError(CondaSteps[n + 1], active_run))
                      /\ UNCHANGED command
       ELSE /\ pc' = "local_launch"
            /\ UNCHANGED <<tags, trace, command, outcome>>
    /\ UNCHANGED <<args, backend_config, cluster_spec_dict, experiment_id, runs, proc,
                   active_run, submitted, wf, user_wrote>>
    /\ UNCHANGED tool_vars

\* lines 151-160: run the entry point command, or `mlflow run` in a subprocess
LocalLaunch ==
    /\ pc = "local_launch"
    /\ LET steps == IF args.synchronous THEN SyncLaunchSteps ELSE AsyncLaunchSteps IN
       \E n \in 0..Len(steps), parameters \in {"None", "dict"} :
         /\ ~args.synchronous => (n = 0 <=> parameters = "None")
         /\ trace' = trace \o Attempt(steps, n, active_run)
         /\ IF n = Len(steps)
            THEN /\ command' = IF args.synchronous THEN command \o <<"entry point">>
                               ELSE <<"mlflow run">>
                 /\ proc' = "running"
                 /\ submitted' = active_run
                 /\ pc' = "run_return"
                 /\ UNCHANGED outcome
            ELSE /\ Raise(StepError(steps[n + 1], active_run))
                 /\ UNCHANGED <<command, proc, submitted>>
    /\ UNCHANGED <<args, backend_config, cluster_spec_dict, experiment_id, runs, tags,
                   active_run, wf, user_wrote>>
    /\ UNCHANGED tool_vars

\* lines 166-187: image, push and job of the kubernetes backend
Kubernetes ==
    /\ pc = "kubernetes"
    /\ \E n \in 0..Len(KubernetesSteps), template_exists \in BOOLEAN :
         LET parsed == _parse_kubernetes_config(cluster_spec_dict, template_exists) IN
         /\ ~args.docker_env => n = 0
         /\ n >= 3 => parsed = "ok"
         /\ n = 2 => parsed # "ok"
         /\ tags' = tags \cup ImageTags(KubernetesSteps, n, active_run)
         /\ trace' = trace \o Attempt(KubernetesSteps, n, active_run)
         /\ IF n = Len(KubernetesSteps)
            THEN /\ command' = <<"entry point">>
                 /\ proc' = "running"
                 /\ submitted' = active_run
                 /\ pc' = "run_return"
                 /\ UNCHANGED outcome
            ELSE /\ Raise(IF ~args.docker_env
                          THEN Exc("AttributeError", "docker_env_is_None", active_run, <<>>)
                          ELSE IF KubernetesSteps[n + 1] = "_parse_kubernetes_config"
                          THEN Exc("ExecutionException", parsed, active_run, <<>>)
                          ELSE StepError(KubernetesSteps[n + 1], active_run))
                 /\ UNCHANGED <<command, proc, submitted>>
    /\ UNCHANGED <<args, backend_config, cluster_spec_dict, experiment_id, runs,
                   active_run, wf, user_wrote>>
    /\ UNCHANGED tool_vars

\* Mutant: run() waits for the submitted run whatever `synchronous` says.
RunReturn_AlwaysWaits ==
    /\ pc = "run_return"
    /\ pc' = "wait_for"
    /\ UNCHANGED <<args, backend_config, cluster_spec_dict, experiment_id, runs, tags, proc,
                   active_run, submitted, command, wf, outcome, trace, user_wrote>>
    /\ UNCHANGED tool_vars

\* lines 279-281: wait for a synchronous run, hand back the SubmittedRun
RunReturn ==
    /\ pc = "run_return"
    /\ IF args.synchronous
       THEN pc' = "wait_for" /\ UNCHANGED outcome
       ELSE outcome' = Returned(submitted) /\ pc' = "done"
    /\ UNCHANGED <<args, backend_config, cluster_spec_dict, experiment_id, runs, tags, proc,
                   active_run, submitted, command, wf, trace, user_wrote>>
    /\ UNCHANGED tool_vars

-----------------------------------------------------------------------------
(* _wait_for(), lines 284-302, and _maybe_set_run_terminated(), lines 369-380 *)

\* Mutant: FINISHED is reported whatever wait() returned.
WaitStatus_AlwaysFinished(succeeded) == "FINISHED"

\* lines 292-296: the status reported for what wait() returned
WaitStatus(succeeded) == IF succeeded THEN "FINISHED" ELSE "FAILED"

\* Mutant: an interrupted run is reported as KILLED.
InterruptStatus_Killed == "KILLED"

\* line 301: the status reported for an interrupted run
InterruptStatus == "FAILED"

\* Mutant: the guard on the re-read status is missing.
ShouldSetTerminated_Unguarded(cur_status) == TRUE

\* Mutant: the guard tests for FAILED alone instead of any terminal status.
ShouldSetTerminated_FailedOnly(cur_status) == cur_status # "FAILED"

\* lines 374-380: whether _maybe_set_run_terminated calls set_terminated
ShouldSetTerminated(cur_status) == ~is_terminated(cur_status)

\* The statements of _wait_for a KeyboardInterrupt is caught at (the try block).
TryBlock == {"try_get_run", "wait", "maybe_read", "maybe_set", "try_end"}

AfterMaybeSet == IF wf.in_handler THEN "reraise" ELSE "try_end"

\* lines 286-287: before the try block
WaitForEnter ==
    /\ pc = "wait_for"
    /\ pc' = "try_get_run"
    /\ UNCHANGED <<args, backend_config, cluster_spec_dict, experiment_id, runs, tags, proc,
                   active_run, submitted, command, wf, outcome, trace, user_wrote>>
    /\ UNCHANGED tool_vars

\* line 291: active_run = get_run(run_id)
WaitForGetRun ==
    /\ pc = "try_get_run"
    /\ wf' = [wf EXCEPT !.active_run = submitted]
    /\ trace' = trace \o <<Ev("get_run", submitted, runs[submitted])>>
    /\ pc' = "wait"
    /\ UNCHANGED <<args, backend_config, cluster_spec_dict, experiment_id, runs, tags, proc,
                   active_run, submitted, command, outcome, user_wrote>>
    /\ UNCHANGED tool_vars

\* line 292: submitted_run_obj.wait() returns once the process has exited
Wait ==
    /\ pc = "wait"
    /\ proc \in {"ok", "fail"}
    /\ wf' = [wf EXCEPT !.waited = IF proc = "ok" THEN "True" ELSE "False",
                        !.status = WaitStatus(proc = "ok")]
    /\ trace' = trace \o <<Ev("wait", submitted, IF proc = "ok" THEN "True" ELSE "False")>>
    /\ pc' = "maybe_read"
    /\ UNCHANGED <<args, backend_config, cluster_spec_dict, experiment_id, runs, tags, proc,
                   active_run, submitted, command, outcome, user_wrote>>
    /\ UNCHANGED tool_vars

\* lines 374-377: nothing to do without a run, else re-read the run's status
MaybeRead ==
    /\ pc = "maybe_read"
    /\ IF wf.active_run = NoRun
       THEN /\ pc' = AfterMaybeSet
            /\ UNCHANGED <<wf, trace>>
       ELSE /\ wf' = [wf EXCEPT !.cur_status = runs[wf.active_run]]
            /\ trace' = trace \o <<Ev("get_run.status", wf.active_run, runs[wf.active_run])>>
            /\ pc' = "maybe_set"
    /\ UNCHANGED <<args, backend_config, cluster_spec_dict, experiment_id, runs, tags, proc,
                   active_run, submitted, command, outcome, user_wrote>>
    /\ UNCHANGED tool_vars

\* lines 378-380: set the status unless the one re-read is terminal
MaybeSet ==
    /\ pc = "maybe_set"
    /\ IF ShouldSetTerminated(wf.cur_status)
       THEN /\ runs' = set_terminated(runs, wf.active_run, wf.status)
            /\ trace' = trace \o <<SetEv("set_terminated", wf.active_run, wf.status,
                                         runs[wf.active_run])>>
       ELSE UNCHANGED <<runs, trace>>
    /\ pc' = AfterMaybeSet
    /\ UNCHANGED <<args, backend_config, cluster_spec_dict, experiment_id, tags, proc,
                   active_run, submitted, command, wf, outcome, user_wrote>>
    /\ UNCHANGED tool_vars

\* lines 293-297: leave the try block, raising if the run failed
TryEnd ==
    /\ pc = "try_end"
    /\ IF wf.waited = "True"
       THEN outcome' = Returned(submitted) /\ pc' = "done"
       ELSE Raise(Exc("ExecutionException", "run_failed", submitted, <<>>))
    /\ UNCHANGED <<args, backend_config, cluster_spec_dict, experiment_id, runs, tags, proc,
                   active_run, submitted, command, wf, trace, user_wrote>>
    /\ UNCHANGED tool_vars

\* Mutant: the handler reports the status without cancelling the run.
Cancel_Omitted ==
    /\ pc = "cancel"
    /\ wf' = [wf EXCEPT !.status = "FAILED"]
    /\ pc' = "maybe_read"
    /\ UNCHANGED <<args, backend_config, cluster_spec_dict, experiment_id, runs, tags, proc,
                   active_run, submitted, command, outcome, trace, user_wrote>>
    /\ UNCHANGED tool_vars

\* lines 298-301: the handler cancels the run, then reports InterruptStatus
Cancel ==
    /\ pc = "cancel"
    /\ proc' = IF proc = "running" THEN "killed" ELSE proc
    /\ trace' = trace \o <<Ev("cancel", submitted, "")>>
    /\ wf' = [wf EXCEPT !.status = InterruptStatus]
    /\ pc' = "maybe_read"
    /\ UNCHANGED <<args, backend_config, cluster_spec_dict, experiment_id, runs, tags,
                   active_run, submitted, command, outcome, user_wrote>>
    /\ UNCHANGED tool_vars

\* line 302
Reraise ==
    /\ pc = "reraise"
    /\ Raise(Exc("KeyboardInterrupt", "", NoRun, <<>>))
    /\ UNCHANGED <<args, backend_config, cluster_spec_dict, experiment_id, runs, tags, proc,
                   active_run, submitted, command, wf, trace, user_wrote>>
    /\ UNCHANGED tool_vars

-----------------------------------------------------------------------------
(* The parties that run beside the caller *)

\* The operator interrupts the caller inside _wait_for: caught by the handler
\* inside the try block, propagating at once before it.
KeyboardInterrupt ==
    /\ ~wf.in_handler
    /\ pc \in TryBlock \cup {"wait_for"}
    /\ trace' = trace \o <<Ev("KeyboardInterrupt", submitted, pc)>>
    /\ IF pc \in TryBlock
       THEN /\ wf' = [wf EXCEPT !.in_handler = TRUE]
            /\ pc' = "cancel"
            /\ UNCHANGED outcome
       ELSE /\ Raise(Exc("KeyboardInterrupt", "", NoRun, <<>>))
            /\ UNCHANGED wf
    /\ UNCHANGED <<args, backend_config, cluster_spec_dict, experiment_id, runs, tags, proc,
                   active_run, submitted, command, user_wrote>>
    /\ UNCHANGED tool_vars

\* The launched process or job exits, successfully or not.
ProcExit ==
    /\ proc = "running"
    /\ \E code \in {"ok", "fail"} : proc' = code
    /\ UNCHANGED <<args, pc, backend_config, cluster_spec_dict, experiment_id, runs, tags,
                   active_run, submitted, command, wf, outcome, trace, user_wrote>>
    /\ UNCHANGED tool_vars

\* An independent terminator (user code inside the launched run) sets a
\* terminal status on the run, at any moment after the launch.
UserTerminate ==
    /\ ~user_wrote
    /\ submitted # NoRun
    /\ \E status \in Terminal : runs' = set_terminated(runs, submitted, status)
    /\ user_wrote' = TRUE
    /\ UNCHANGED <<args, pc, backend_config, cluster_spec_dict, experiment_id, tags, proc,
                   active_run, submitted, command, wf, outcome, trace>>
    /\ UNCHANGED tool_vars

Next ==
    \/ RunConfig \/ RunValidate \/ RunResolve
    \/ DispatchLoad \/ DispatchFetch \/ DispatchGetRun \/ DispatchBranch
    \/ LocalEnv \/ LocalLaunch \/ Kubernetes \/ RunReturn
    \/ WaitForEnter \/ WaitForGetRun \/ Wait \/ MaybeRead \/ MaybeSet \/ TryEnd
    \/ Cancel \/ Reraise
    \/ KeyboardInterrupt \/ ProcExit \/ UserTerminate

Spec == Init /\ [][Next]_vars

-----------------------------------------------------------------------------
(* Properties of the supervisor *)

\* The supervisor's set_terminated calls, as positions of the trace.
SupervisorSets == {i \in DOMAIN trace : trace[i].ev = "set_terminated"}

\* The interrupts, as positions of the trace; val is the statement interrupted.
Interrupts == {i \in DOMAIN trace : trace[i].ev = "KeyboardInterrupt"}

Cancels == {i \in DOMAIN trace : trace[i].ev = "cancel"}

\* C1: whatever the process does and wherever in the try block of _wait_for
\* the KeyboardInterrupt arrives, the supervisor calls set_terminated at most
\* once for a run id.
C1_SetTerminatedAtMostOnce ==
    \A id \in RunIds : Cardinality({i \in SupervisorSets : trace[i].id = id}) <= 1

\* C1 witness: the interrupt arrived after the supervisor had reported, and the
\* handler ran to its end.
C1_Witness ==
    /\ pc = "done"
    /\ outcome.type = "KeyboardInterrupt"
    /\ \E i \in SupervisorSets, j \in Interrupts : i < j

\* C2 as stated: the supervisor never issues set_terminated(run_id, s) while
\* the run holds a terminal status other than s.
C2_NeverOverATerminalStatus ==
    \A i \in SupervisorSets : ~(is_terminated(trace[i].held) /\ trace[i].held # trace[i].val)

\* C2 amended: the supervisor issues set_terminated only right after a re-read
\* of the run that returned a non-terminal status; when the run nevertheless
\* holds a terminal status as the call arrives, the independent terminator
\* wrote it after that re-read.
C2_IssuedOnlyAfterNonTerminalReread ==
    \A i \in SupervisorSets :
        /\ i > 1
        /\ trace[i - 1].ev = "get_run.status"
        /\ trace[i - 1].id = trace[i].id
        /\ ~is_terminated(trace[i - 1].val)
        /\ is_terminated(trace[i].held) => user_wrote

\* C2 witness: the terminator wrote between the supervisor's re-read and its
\* set_terminated, which arrives at a run holding another terminal status.
C2_Witness ==
    \E i \in SupervisorSets : is_terminated(trace[i].held) /\ trace[i].held # trace[i].val

\* C3: a synchronous wait interrupted during wait(), the run not terminal when
\* the handler re-reads it: once run() is over, the supervisor has issued
\* exactly one set_terminated, with FAILED, and run() raised KeyboardInterrupt.
C3_InterruptedWaitReportsFailedOnce ==
    (/\ pc = "done"
     /\ \E j \in Interrupts : trace[j].val = "wait"
     /\ \E k \in DOMAIN trace : trace[k].ev = "get_run.status" /\ ~is_terminated(trace[k].val))
    => /\ Cardinality(SupervisorSets) = 1
       /\ \A i \in SupervisorSets : trace[i].val = "FAILED" /\ trace[i].id = submitted
       /\ outcome.type = "KeyboardInterrupt"

\* C3 witness: a local synchronous run interrupted in wait() and reported FAILED.
C3_Witness ==
    /\ pc = "done"
    /\ args.backend \in {"local", "None"}
    /\ \E j \in Interrupts : trace[j].val = "wait"
    /\ \E i \in SupervisorSets : trace[i].val = "FAILED"
    /\ runs[submitted] = "FAILED"
    /\ outcome.type = "KeyboardInterrupt"

\* C4 as stated: after a KeyboardInterrupt anywhere in _wait_for, cancel() is
\* called before the interrupt propagates and before any FAILED is written.
C4_CancelBeforeRaiseAndAnyFailed ==
    Interrupts # {} =>
        /\ outcome.type = "KeyboardInterrupt" => Cancels # {}
        /\ \A i \in SupervisorSets :
               trace[i].val = "FAILED" => \E c \in Cancels : c < i

\* C4 amended: after a KeyboardInterrupt inside the try block of _wait_for,
\* cancel() is called before the interrupt propagates and before the handler
\* writes FAILED (every FAILED written after the interrupt follows the cancel).
C4_CancelBeforeRaiseAndHandlerFailed ==
    \A j \in Interrupts :
        trace[j].val \in TryBlock =>
            /\ outcome.type = "KeyboardInterrupt" => \E c \in Cancels : c > j
            /\ \A i \in SupervisorSets :
                   (i > j /\ trace[i].val = "FAILED") => \E c \in Cancels : j < c /\ c < i

\* C4 witness: interrupted in the try block, cancelled, then reported FAILED,
\* then re-raised.
C4_Witness ==
    /\ outcome.type = "KeyboardInterrupt"
    /\ \E j \in Interrupts, c \in Cancels, i \in SupervisorSets :
           j < c /\ c < i /\ trace[i].val = "FAILED"

\* The supervisor's re-reads of the run's status that returned a non-terminal one.
NonTerminalRereads ==
    {k \in DOMAIN trace : trace[k].ev = "get_run.status" /\ ~is_terminated(trace[k].val)}

\* C5: a synchronous run whose wait() returned False and whose re-read status
\* was not terminal: set_terminated(FAILED) has been issued by the time the
\* raise is reached, and without an interrupt run() ends raising the
\* ExecutionException that carries the run id.
C5_FailedRunReportedThenRaised ==
    /\ (pc = "try_end" /\ wf.waited = "False" /\ NonTerminalRereads # {})
       => \E i \in SupervisorSets : trace[i].val = "FAILED" /\ trace[i].id = submitted
    /\ (pc = "done" /\ wf.waited = "False" /\ Interrupts = {} /\ NonTerminalRereads # {})
       => /\ outcome = Exc("ExecutionException", "run_failed", submitted, <<>>)
          /\ \E i \in SupervisorSets : trace[i].val = "FAILED" /\ trace[i].id = submitted

\* C5 witness: the run failed, was reported FAILED and run() raised.
C5_Witness ==
    /\ pc = "done"
    /\ outcome.msg = "run_failed"
    /\ outcome.run_id = submitted
    /\ runs[submitted] = "FAILED"
    /\ \E i \in SupervisorSets : trace[i].val = "FAILED"

Range(seq) == {seq[i] : i \in DOMAIN seq}

\* The calls by which _run provisions an environment or an image.
ProvisioningCalls ==
    Range(DockerSteps) \cup Range(CondaSteps)
    \cup {"_parse_kubernetes_config", "push_image_to_registry"}

BareSynchronous ==
    args.backend = "None" /\ ~args.docker_env /\ ~args.use_conda /\ args.synchronous

\* C6: no docker, no conda, backend omitted, synchronous: the launched command
\* is the entry point command alone and nothing is provisioned; run() returns
\* only after the process has exited; after a successful exit and no interrupt
\* run() returns, and the run is then FINISHED unless user code terminated it.
C6_BareSynchronousRun ==
    BareSynchronous =>
        /\ proc # "none" => command = <<"entry point">>
        /\ \A i \in DOMAIN trace : trace[i].ev \notin ProvisioningCalls
        /\ outcome.type = "returned" => proc = "ok"
        /\ (pc = "done" /\ proc = "ok" /\ Interrupts = {}) => outcome = Returned(submitted)
        /\ (outcome.type = "returned" /\ ~user_wrote) => runs[submitted] = "FINISHED"

\* C6 witness: such a run, launched, waited for and reported FINISHED.
C6_Witness ==
    /\ BareSynchronous
    /\ outcome.type = "returned"
    /\ command = <<"entry point">>
    /\ runs[submitted] = "FINISHED"
    /\ \E i \in SupervisorSets : trace[i].val = "FINISHED"

\* C7: when the status the supervisor re-reads is terminal, the call it makes
\* next is not set_terminated and the run keeps the status that was read.
C7_TerminalRereadWritesNothing ==
    \A k \in DOMAIN trace :
        (trace[k].ev = "get_run.status" /\ is_terminated(trace[k].val))
        => /\ k < Len(trace) => trace[k + 1].ev # "set_terminated"
           /\ runs[trace[k].id] = trace[k].val

\* C7 witness: the supervisor found the run terminated by user code, after a
\* wait that completed, and left it alone.
C7_Witness ==
    /\ pc = "done"
    /\ SupervisorSets = {}
    /\ \E k \in DOMAIN trace : trace[k].ev = "get_run.status" /\ is_terminated(trace[k].val)
    /\ \E k \in DOMAIN trace : trace[k].ev = "wait"

UnsupportedBackend ==
    args.backend \notin RegisteredBackends \cup {"None", "local", "databricks", "kubernetes"}

\* C8: a backend name that is no registered backend and none of the built-in
\* ones never launches anything and never returns a run; when dispatch reaches
\* the backend branch it raises the ExecutionException whose message lists
\* local, databricks and kubernetes.
C8_UnsupportedBackendRejected ==
    UnsupportedBackend =>
        /\ proc = "none" /\ submitted = NoRun
        /\ pc = "done" => outcome.type # "returned"
        /\ (pc = "done" /\ active_run # NoRun)
           => /\ outcome.type = "ExecutionException"
              /\ outcome.msg = "unsupported_execution_mode"
              /\ outcome.names = <<"local", "databricks", "kubernetes">>

\* C8 witness: the unsupported-backend error has been raised.
C8_Witness ==
    /\ UnsupportedBackend
    /\ pc = "done"
    /\ outcome.msg = "unsupported_execution_mode"

\* The calls _run makes when it runs the project itself.
DispatcherCalls ==
    {"fetch_and_validate_project", "get_or_create_run", "run_databricks"}
    \cup ProvisioningCalls \cup Range(KubernetesSteps)
    \cup Range(SyncLaunchSteps) \cup Range(AsyncLaunchSteps)

BackendRuns == {i \in DOMAIN trace : trace[i].ev = "backend.run"}

\* C9: with a backend the registry loads, _run makes none of its own calls
\* (no fetch, no run record, no provisioning, no launch), calls backend.run at
\* most once, and once it holds the SubmittedRun it has called backend.run
\* exactly once, tagged that run with the backend name and nothing else, and
\* what run() returns is that run.
C9_RegisteredBackendDelegation ==
    args.backend \in RegisteredBackends =>
        /\ \A i \in DOMAIN trace : trace[i].ev \notin DispatcherCalls
        /\ active_run = NoRun
        /\ Cardinality(BackendRuns) <= 1
        /\ submitted # NoRun
           => /\ \E i \in BackendRuns : trace[i].id = submitted
              /\ tags = {<<submitted, MLFLOW_PROJECT_BACKEND, args.backend>>}
        /\ outcome.type = "returned" => (submitted # NoRun /\ outcome.run_id = submitted)

\* C9 witness: the registered backend ran the project and run() returned its run.
C9_Witness ==
    /\ args.backend \in RegisteredBackends
    /\ outcome.type = "returned"
    /\ <<submitted, MLFLOW_PROJECT_BACKEND, args.backend>> \in tags

DockerOnDatabricks == args.docker_env /\ args.backend = "databricks"

\* C10: a project with a docker environment sent to databricks never returns a
\* run; no run record is obtained or created, no tag is set and nothing is
\* launched; once the project is fetched, run() ends with the ExecutionException
\* of _validate_execution_environment.
C10_DockerOnDatabricksRejected ==
    DockerOnDatabricks =>
        /\ active_run = NoRun /\ submitted = NoRun /\ proc = "none"
        /\ tags = {}
        /\ \A id \in RunIds \ {ExistingRunId} : runs[id] = "absent"
        /\ \A i \in DOMAIN trace : trace[i].ev \notin {"get_or_create_run", "set_tag"}
        /\ pc = "done" => outcome.type # "returned"
        /\ (pc = "done" /\ \E i \in DOMAIN trace :
                              trace[i].ev = "fetch_and_validate_project" /\ trace[i].val = "ok")
           => outcome = Exc("ExecutionException", "docker_on_databricks", NoRun, <<>>)

\* C10 witness: the rejection has been raised.
C10_Witness ==
    /\ DockerOnDatabricks
    /\ pc = "done"
    /\ outcome.msg = "docker_on_databricks"

-----------------------------------------------------------------------------
(* Properties of a local dispatch *)

LocalExecution == args.backend \in {"local", "None"}

GetOrCreateRuns == {i \in DOMAIN trace : trace[i].ev = "get_or_create_run"}

\* C11: when run() is given an existing run id for local execution (backend
\* "local" or omitted; backend_config absent, a mapping or a JSON path), the run
\* obtained by get_or_create_run is that run, no run record is created, and the
\* dispatch is not stopped by a TypeError on the way to get_or_create_run.
C11_ExistingRunIdResumed ==
    (LocalExecution /\ args.run_id # NoRun) =>
        /\ \A i \in GetOrCreateRuns :
               trace[i].id = args.run_id /\ trace[i].val = "existing"
        /\ \A id \in RunIds \ {ExistingRunId} : runs[id] = "absent"
        /\ outcome.type # "TypeError"

EnvTags == {t \in tags : t[2] = MLFLOW_PROJECT_ENV}

CallsOf(steps) == {i \in DOMAIN trace : trace[i].ev \in Range(steps)}

\* C12: for the local backend the environment of the run is docker exactly
\* when the project has a docker environment (use_conda or not), conda exactly
\* when it has none and use_conda is set, and neither otherwise: only the
\* chosen mode's tools are called, the run's environment tag is "docker" or
\* "conda" accordingly and is never set for a bare run, and the command prefix
\* handed to the launch is the chosen mode's.
C12_OneIsolationMode ==
    LocalExecution =>
        LET docker == args.docker_env
            conda == ~args.docker_env /\ args.use_conda
        IN /\ CallsOf(DockerSteps) # {} => docker
           /\ CallsOf(CondaSteps) # {} => conda
           /\ EnvTags \subseteq
                  (IF docker THEN {<<active_run, MLFLOW_PROJECT_ENV, "docker">>}
                   ELSE IF conda THEN {<<active_run, MLFLOW_PROJECT_ENV, "conda">>}
                   ELSE {})
           /\ pc = "local_launch" =>
                  /\ docker \/ conda => EnvTags # {}
                  /\ docker => CallsOf(DockerSteps) # {} /\ command = <<"docker run image">>
                  /\ conda => CallsOf(CondaSteps) # {} /\ command = <<"conda activate">>
                  /\ ~docker /\ ~conda => command = <<>>

\* C12 witness: a project with a docker environment dispatched with use_conda
\* set has been given the docker environment.
C12_Witness ==
    /\ LocalExecution /\ args.docker_env /\ args.use_conda
    /\ pc = "local_launch"
    /\ <<active_run, MLFLOW_PROJECT_ENV, "docker">> \in tags

\* The three phases of a dispatch, as the calls that make them up.
Provisioning ==
    {"_validate_docker_env", "_validate_docker_installation", "_build_docker_image",
     "_get_or_create_conda_env", "_parse_kubernetes_config", "push_image_to_registry"}

CommandAssembly ==
    {"_get_docker_command", "_get_conda_command", "_get_entry_point_command",
     "_build_mlflow_run_cmd"}

Launches == {"Popen", "run_kubernetes_job", "run_databricks"}

\* C13: in one dispatch every provisioning call precedes every command
\* assembly call, every command assembly call precedes the launch, a call
\* that raised is the last call of the dispatch, and after a provisioning or
\* assembly call has raised nothing is running.
C13_ProvisionThenAssembleThenLaunch ==
    /\ \A i, j \in DOMAIN trace :
           /\ trace[i].ev \in Provisioning /\ trace[j].ev \in CommandAssembly => i < j
           /\ trace[i].ev \in CommandAssembly /\ trace[j].ev \in Launches => i < j
           /\ trace[i].ev \in Provisioning /\ trace[j].ev \in Launches => i < j
           /\ trace[i].ev \in Provisioning \cup CommandAssembly /\ trace[i].val = "raised"
              => ~(i < j /\ trace[j].ev \in DispatcherCalls)
    /\ (\E i \in DOMAIN trace :
            trace[i].ev \in Provisioning \cup CommandAssembly /\ trace[i].val = "raised")
       => proc = "none" /\ submitted = NoRun

\* C13 witness: a docker image was built, the command assembled and the
\* process launched.
C13_Witness ==
    /\ LocalExecution
    /\ proc = "running"
    /\ \E i, j, k \in DOMAIN trace :
           /\ trace[i].ev = "_build_docker_image" /\ trace[i].val = "ok"
           /\ trace[j].ev = "_get_docker_command" /\ trace[j].val = "ok"
           /\ trace[k].ev = "Popen" /\ trace[k].val = "ok"

\* C14: with synchronous=False run() returns the SubmittedRun of _run, never
\* having waited on it, read its status, cancelled it or set it terminated; a
\* terminal status of the run is then the work of another party.
C14_AsynchronousRunNotSupervised ==
    ~args.synchronous =>
        /\ \A i \in DOMAIN trace :
               trace[i].ev \notin {"wait", "get_run", "get_run.status", "set_terminated",
                                   "cancel"}
        /\ wf.waited = "no"
        /\ pc = "done" /\ outcome.type = "returned" => outcome.run_id = submitted
        /\ submitted # NoRun /\ runs[submitted] \in Terminal => user_wrote

\* C14 witness: run() has returned an asynchronous run, whose process has since
\* exited and whose status another party has set.
C14_Witness ==
    /\ ~args.synchronous
    /\ pc = "done" /\ outcome.type = "returned"
    /\ submitted # NoRun /\ proc \in {"ok", "fail"}
    /\ runs[submitted] \in Terminal

-----------------------------------------------------------------------------
(* _get_or_create_conda_env(), lines 332-366, run by concurrent callers *)

\* The longest text of a conda.yaml file or of an env_id.
MaxLen == 1

Alphabet == {"a", "b"}

Texts == UNION {[1..n -> Alphabet] : n \in 0..MaxLen}

\* An optional string argument: None, or the text given.
None == [given |-> FALSE, text |-> <<>>]

Some(t) == [given |-> TRUE, text |-> t]

Optional == {None} \cup {Some(t) : t \in Texts}

Callers == {1, 2}

\* line 309: hashlib.sha1(...).hexdigest(), free of collisions: the digest
\* determines the string it was computed from
sha1_hexdigest(str) == <<"sha1">> \o str

\* Mutant: the env_id is not added to the contents.
_get_conda_env_name_IgnoresEnvId(conda_env_path, env_id) ==
    <<"mlflow-">> \o sha1_hexdigest(conda_env_path.text)

\* Mutant: the name carries the moment of the call.
_get_conda_env_name_Timestamped(conda_env_path, env_id) ==
    <<"mlflow-">> \o sha1_hexdigest(conda_env_path.text \o env_id.text)
                  \o <<ToString(Len(conda_log))>>

\* lines 305-309: conda_env_path is a file's contents here, None without a file
_get_conda_env_name(conda_env_path, env_id) ==
    LET conda_env_contents == IF conda_env_path.given THEN conda_env_path.text ELSE <<>>
        contents == IF env_id.given /\ env_id.text # <<>>
                    THEN conda_env_contents \o env_id.text
                    ELSE conda_env_contents
    IN <<"mlflow-">> \o sha1_hexdigest(contents)

\* The prefix under which conda keeps the environment of that name.
EnvPrefix(name) == <<"/envs">> \o name

\* Mutant: the listing is compared as prefixes, not as names.
env_names_FullPaths(envs) == envs

\* line 351: the basename of every prefix that `conda env list --json` reports
env_names(envs) == {Tail(env) : env \in envs}

\* Mutant: the environment is created whatever the listing says.
ShouldCreate_Always(project_env_name, names) == TRUE

\* line 353: create only an environment the listing does not have
ShouldCreate(project_env_name, names) == project_env_name \notin names

\* lines 354-364: the create command, from a conda.yaml or with python alone
CreateCommand(conda_env_path) == IF conda_env_path.given THEN "env create" ELSE "create"

CondaEv(c, e, n, v) == [caller |-> c, ev |-> e, name |-> n, val |-> v]

Frame(path, id) ==
    [pc |-> "probe", conda_env_path |-> path, env_id |-> id, names |-> {},
     project_env_name |-> <<>>, result |-> "pending"]

\* The dispatch is at rest while the tools are looked at on their own.
DispatchIdle ==
    /\ args = [backend |-> "None", docker_env |-> FALSE, use_conda |-> TRUE,
               synchronous |-> TRUE, run_id |-> NoRun]
    /\ backend_config = NoConfig
    /\ pc = "done"
    /\ cluster_spec_dict = NoConfig
    /\ experiment_id = 0
    /\ runs = [i \in RunIds |-> IF i = ExistingRunId THEN "RUNNING" ELSE "absent"]
    /\ tags = {}
    /\ proc = "none"
    /\ active_run = NoRun
    /\ submitted = NoRun
    /\ command = <<>>
    /\ wf = [active_run |-> NoRun, status |-> "", cur_status |-> "", in_handler |-> FALSE,
             waited |-> "no"]
    /\ outcome = Pending
    /\ trace = <<>>
    /\ user_wrote = FALSE

\* Two callers, each with its conda.yaml and env_id; the environment of a
\* project without either may exist already.
InitConda ==
    /\ DispatchIdle
    /\ conda_log = <<>>
    /\ callers \in [Callers -> {Frame(path, id) : path \in Optional, id \in Optional}]
    /\ conda_envs \in SUBSET {EnvPrefix(_get_conda_env_name(None, None))}
    /\ build = <<>> /\ fs = {}
    /\ CallsIdle

\* lines 343-349: `conda --help` finds the executable or not
CondaProbe(c) ==
    /\ callers[c].pc = "probe"
    /\ \E found \in BOOLEAN :
         /\ conda_log' = Append(conda_log, CondaEv(c, "--help", <<>>,
                                                   IF found THEN "ok" ELSE "raised"))
         /\ callers' = IF found
                       THEN [callers EXCEPT ![c].pc = "list"]
                       ELSE [callers EXCEPT ![c].pc = "done",
                                            ![c].result = "ExecutionException"]
    /\ UNCHANGED <<dispatch_vars, conda_envs, build, fs>>
    /\ UNCHANGED call_vars

\* lines 350-353: list the environments, compute the name, look it up
CondaList(c) ==
    /\ callers[c].pc = "list"
    /\ LET names == env_names(conda_envs)
           project_env_name == _get_conda_env_name(callers[c].conda_env_path,
                                                   callers[c].env_id)
       IN /\ callers' = [callers EXCEPT
                            ![c].names = names,
                            ![c].project_env_name = project_env_name,
                            ![c].pc = IF ShouldCreate(project_env_name, names)
                                      THEN "create" ELSE "return"]
          /\ conda_log' = Append(conda_log, CondaEv(c, "env list", project_env_name, "ok"))
    /\ UNCHANGED <<dispatch_vars, conda_envs, build, fs>>
    /\ UNCHANGED call_vars

\* lines 354-364: the create command; it makes the environment or fails
CondaCreate(c) ==
    /\ callers[c].pc = "create"
    /\ \E ok \in BOOLEAN :
         /\ conda_log' = Append(conda_log,
                                CondaEv(c, CreateCommand(callers[c].conda_env_path),
                                        callers[c].project_env_name,
                                        IF ok THEN "ok" ELSE "raised"))
         /\ conda_envs' = IF ok
                          THEN conda_envs \cup {EnvPrefix(callers[c].project_env_name)}
                          ELSE conda_envs
         /\ callers' = IF ok
                       THEN [callers EXCEPT ![c].pc = "return"]
                       ELSE [callers EXCEPT ![c].pc = "done",
                                            ![c].result = "ShellCommandException"]
    /\ UNCHANGED <<dispatch_vars, build, fs>>
    /\ UNCHANGED call_vars

\* line 366: return project_env_name
CondaReturn(c) ==
    /\ callers[c].pc = "return"
    /\ callers' = [callers EXCEPT ![c].pc = "done", ![c].result = "returned"]
    /\ conda_log' = Append(conda_log, CondaEv(c, "return", callers[c].project_env_name, "ok"))
    /\ UNCHANGED <<dispatch_vars, conda_envs, build, fs>>
    /\ UNCHANGED call_vars

NextConda ==
    \E c \in Callers : CondaProbe(c) \/ CondaList(c) \/ CondaCreate(c) \/ CondaReturn(c)

SpecConda == InitConda /\ [][NextConda]_vars

-----------------------------------------------------------------------------
(* Properties of the conda environments *)

\* The callers whose environment name has been computed.
Named == {c \in Callers : callers[c].pc \in {"create", "return"}
                          \/ callers[c].result \in {"returned", "ShellCommandException"}}

\* The contents C of a caller's dependency file, no file counting as empty,
\* and its discriminator D, none counting as empty.
ContentsOf(c) == callers[c].conda_env_path.text

DiscriminatorOf(c) == callers[c].env_id.text

SameSpec(a, b) == ContentsOf(a) = ContentsOf(b) /\ DiscriminatorOf(a) = DiscriminatorOf(b)

\* C15 as claimed: two environment names are equal exactly when the contents
\* are equal and the discriminators are equal.
C15_NamesEqualIffInputsEqual ==
    \A a, b \in Named :
        callers[a].project_env_name = callers[b].project_env_name <=> SameSpec(a, b)

\* C15: two environment names are equal exactly when the contents followed by
\* the discriminator are the same string; so equal inputs give equal names,
\* and inputs that differ in the contents alone or in the discriminator alone
\* give different names.
C15_NamesEqualIffConcatenationsEqual ==
    \A a, b \in Named :
        LET same == callers[a].project_env_name = callers[b].project_env_name IN
        /\ same <=> ContentsOf(a) \o DiscriminatorOf(a) = ContentsOf(b) \o DiscriminatorOf(b)
        /\ SameSpec(a, b) => same
        /\ ContentsOf(a) = ContentsOf(b) /\ DiscriminatorOf(a) # DiscriminatorOf(b) => ~same
        /\ ContentsOf(a) # ContentsOf(b) /\ DiscriminatorOf(a) = DiscriminatorOf(b) => ~same

\* C15 witness: two callers whose contents and discriminators both differ have
\* computed the same name.
C15_Witness ==
    \E a, b \in Named :
        /\ ContentsOf(a) # ContentsOf(b) /\ DiscriminatorOf(a) # DiscriminatorOf(b)
        /\ callers[a].project_env_name = callers[b].project_env_name

Creates(c) == {i \in DOMAIN conda_log : conda_log[i].caller = c
                                         /\ conda_log[i].ev \in {"env create", "create"}}

Returns(c) == {i \in DOMAIN conda_log : conda_log[i].caller = c /\ conda_log[i].ev = "return"}

FirstCall(c) == {i \in DOMAIN conda_log : conda_log[i].caller = c /\ conda_log[i].ev = "--help"}

\* Caller b's call began after caller a's call had returned a name.
Successive(a, b) == \E i \in Returns(a) : \A j \in FirstCall(b) \cup Creates(b) : i < j

\* C16: of two successive calls with the same conda.yaml and env_id, the first
\* having returned, the second issues no create command and returns the name
\* the first returned; the create command is issued at most once.
C16_SecondCallCreatesNothing ==
    \A a, b \in Callers :
        (a # b /\ SameSpec(a, b) /\ Successive(a, b) /\ FirstCall(b) # {}) =>
            /\ Creates(b) = {}
            /\ Cardinality(Creates(a) \cup Creates(b)) <= 1
            /\ callers[b].result = "returned"
               => callers[b].project_env_name = callers[a].project_env_name

\* C16 witness: the first call created the environment and returned; the
\* second call, begun afterwards, has returned too.
C16_Witness ==
    \E a, b \in Callers :
        /\ a # b /\ SameSpec(a, b) /\ Successive(a, b)
        /\ Creates(a) # {}
        /\ callers[b].result = "returned"

\* C17 as claimed: of two concurrent callers with the same environment spec,
\* at most one issues the create command.
C17_CreateNeverIssuedByBoth ==
    \A a, b \in Callers :
        a # b /\ SameSpec(a, b) => Creates(a) = {} \/ Creates(b) = {}

\* C17: a caller issues the create command only for a name that its own
\* listing did not have, and at most once; a caller whose listing was taken
\* after the environment had been created issues none.  (Two callers whose
\* listings both precede the first creation both issue it.)
C17_CreateOnlyWhenAbsentFromOwnListing ==
    \A c \in Callers :
        /\ Cardinality(Creates(c)) <= 1
        /\ \A i \in Creates(c) :
               /\ conda_log[i].name = callers[c].project_env_name
               /\ conda_log[i].name \notin callers[c].names
               /\ \A j \in 1..(i - 1) :
                      ~(/\ conda_log[j].ev \in {"env create", "create"}
                        /\ conda_log[j].val = "ok"
                        /\ conda_log[j].name = conda_log[i].name
                        /\ \E k \in (j + 1)..(i - 1) :
                               conda_log[k].caller = c /\ conda_log[k].ev = "env list")

\* C17 witness: both callers of one spec have issued the create command.
C17_Witness ==
    \E a, b \in Callers :
        a # b /\ SameSpec(a, b) /\ Creates(a) # {} /\ Creates(b) # {}

\* The environments that the two callers' commands have made.
Made == {EnvPrefix(conda_log[i].name) :
             i \in {j \in DOMAIN conda_log : conda_log[j].ev \in {"env create", "create"}
                                             /\ conda_log[j].val = "ok"}}

\* C18: two concurrent callers with the same conda.yaml contents and env_id
\* compute, request and return one and the same environment name, whatever the
\* interleaving, and the environments they make are at most one.
C18_OneNameForOneSpec ==
    \A a, b \in Callers :
        (a # b /\ SameSpec(a, b)) =>
            /\ a \in Named /\ b \in Named
               => callers[a].project_env_name = callers[b].project_env_name
            /\ \A i \in Creates(a), j \in Creates(b) \cup Returns(b) :
                   conda_log[i].name = conda_log[j].name
            /\ \A i \in Returns(a), j \in Returns(b) : conda_log[i].name = conda_log[j].name
            /\ Cardinality(Made) <= 1

\* C18 witness: two callers of one spec, their steps interleaved, have both
\* returned.
C18_Witness ==
    \E a, b \in Callers :
        /\ a # b /\ SameSpec(a, b)
        /\ callers[a].result = "returned" /\ callers[b].result = "returned"
        /\ \E i \in Creates(a), j \in Creates(b) : TRUE
        /\ \E i \in FirstCall(b), j \in Returns(a) : i < j

-----------------------------------------------------------------------------
(* _build_docker_image(), lines 637-667, with _create_docker_build_ctx(),     *)
(* lines 618-634, and _get_docker_image_uri(), lines 670-683                  *)

\* The length of a commit hash (40 in git; longer than the 7 characters kept).
CommitLen == 8

HexDigits == {"0", "f"}

\* _get_git_commit(work_dir) is None outside a repository.
Commits == {None} \cup {Some(c) : c \in [1..CommitLen -> HexDigits]}

\* repository_uri: project.name (line 134), never empty after
\* _validate_docker_env, or kube_config["repository-uri"] (line 170), any value
RepositoryUris == {None, Some(<<>>), Some(<<"r">>), Some(<<"r", "/", "p">>)}

WorkDirs == [git_commit : Commits]

_get_git_commit(work_dir) == work_dir.git_commit

\* s[:n]
Slice(s, n) == SubSeq(s, 1, IF Len(s) < n THEN Len(s) ELSE n)

\* Mutant: the whole commit hash goes into the tag.
_get_docker_image_uri_FullCommit(repository_uri, work_dir) ==
    (IF repository_uri.given /\ repository_uri.text # <<>>
     THEN repository_uri.text ELSE <<"docker-project">>)
    \o (IF _get_git_commit(work_dir).given
        THEN <<":">> \o _get_git_commit(work_dir).text ELSE <<>>)

\* lines 670-683
_get_docker_image_uri(repository_uri, work_dir) ==
    LET uri == IF repository_uri.given /\ repository_uri.text # <<>>
               THEN repository_uri.text
               ELSE <<"docker-project">>
        git_commit == _get_git_commit(work_dir)
        version_string == IF git_commit.given /\ git_commit.text # <<>>
                          THEN <<":">> \o Slice(git_commit.text, 7)
                          ELSE <<>>
    IN uri \o version_string

BuildFrame(repository_uri, work_dir) ==
    [pc |-> "image_uri", repository_uri |-> repository_uri, work_dir |-> work_dir,
     image_uri |-> <<>>, raising |-> "", result |-> "pending",
     tag_uri |-> <<>>, tag_id |-> ""]

InitBuild ==
    /\ DispatchIdle
    /\ conda_envs = {} /\ callers = <<>> /\ conda_log = <<>>
    /\ build \in {BuildFrame(r, w) : r \in RepositoryUris, w \in WorkDirs}
    /\ fs = {}
    /\ CallsIdle

\* line 641
BuildImageUri ==
    /\ build.pc = "image_uri"
    /\ build' = [build EXCEPT !.pc = "mkdtemp",
                              !.image_uri = _get_docker_image_uri(build.repository_uri,
                                                                  build.work_dir)]
    /\ UNCHANGED <<dispatch_vars, conda_envs, callers, conda_log, fs>>
    /\ UNCHANGED call_vars

\* line 622: directory = tempfile.mkdtemp()
Mkdtemp ==
    /\ build.pc = "mkdtemp"
    /\ fs' = fs \cup {"directory"}
    /\ build' = [build EXCEPT !.pc = "copytree"]
    /\ UNCHANGED <<dispatch_vars, conda_envs, callers, conda_log>>
    /\ UNCHANGED call_vars

\* lines 624-627: the project is copied and the Dockerfile written, or one of
\* the two raises inside the try
CopyTree ==
    /\ build.pc = "copytree"
    /\ \E ok \in BOOLEAN :
         build' = IF ok THEN [build EXCEPT !.pc = "mkstemp"]
                  ELSE [build EXCEPT !.pc = "finally", !.raising = "OSError"]
    /\ UNCHANGED <<dispatch_vars, conda_envs, callers, conda_log, fs>>
    /\ UNCHANGED call_vars

\* line 628: _, result_path = tempfile.mkstemp()
Mkstemp ==
    /\ build.pc = "mkstemp"
    /\ fs' = fs \cup {"result_path"}
    /\ build' = [build EXCEPT !.pc = "make_tarfile"]
    /\ UNCHANGED <<dispatch_vars, conda_envs, callers, conda_log>>
    /\ UNCHANGED call_vars

\* lines 629-631: the archive is written, or make_tarfile raises
MakeTarfile ==
    /\ build.pc = "make_tarfile"
    /\ \E ok \in BOOLEAN :
         build' = IF ok THEN [build EXCEPT !.pc = "finally"]
                  ELSE [build EXCEPT !.pc = "finally", !.raising = "OSError"]
    /\ UNCHANGED <<dispatch_vars, conda_envs, callers, conda_log, fs>>
    /\ UNCHANGED call_vars

\* lines 632-634: the finally clause removes the directory; then the exception
\* goes on, or result_path is returned
RmTree ==
    /\ build.pc = "finally"
    /\ fs' = fs \ {"directory"}
    /\ build' = IF build.raising # ""
                THEN [build EXCEPT !.pc = "done", !.result = build.raising]
                ELSE [build EXCEPT !.pc = "images.build"]
    /\ UNCHANGED <<dispatch_vars, conda_envs, callers, conda_log>>
    /\ UNCHANGED call_vars

\* lines 652-658: client.images.build returns the image, or raises
ImagesBuild ==
    /\ build.pc = "images.build"
    /\ \E ok \in BOOLEAN :
         build' = IF ok THEN [build EXCEPT !.pc = "remove"]
                  ELSE [build EXCEPT !.pc = "done", !.result = "BuildError"]
    /\ UNCHANGED <<dispatch_vars, conda_envs, callers, conda_log, fs>>
    /\ UNCHANGED call_vars

\* lines 659-662: os.remove(build_ctx_path); a failure is logged and swallowed
RemoveContext ==
    /\ build.pc = "remove"
    /\ \E ok \in BOOLEAN : fs' = IF ok THEN fs \ {"result_path"} ELSE fs
    /\ build' = [build EXCEPT !.pc = "set_tag"]
    /\ UNCHANGED <<dispatch_vars, conda_envs, callers, conda_log>>
    /\ UNCHANGED call_vars

\* lines 663-667: the two image tags of the run, return image
BuildReturn ==
    /\ build.pc = "set_tag"
    /\ build' = [build EXCEPT !.pc = "done", !.result = "returned",
                              !.tag_uri = build.image_uri, !.tag_id = "image_id"]
    /\ UNCHANGED <<dispatch_vars, conda_envs, callers, conda_log, fs>>
    /\ UNCHANGED call_vars

NextBuild ==
    \/ BuildImageUri \/ Mkdtemp \/ CopyTree \/ Mkstemp \/ MakeTarfile \/ RmTree
    \/ ImagesBuild \/ RemoveContext \/ BuildReturn

SpecBuild == InitBuild /\ [][NextBuild]_vars

-----------------------------------------------------------------------------
(* Properties of the image build *)

\* C19: when _build_docker_image has returned or raised, neither the staging
\* directory nor the build context archive exists.
C19_NothingLeftBehind ==
    build.pc = "done" => "directory" \notin fs /\ "result_path" \notin fs

\* The revision part of a tag: ":" and the first 7 characters of the commit
\* when there is one.
RevisionPart ==
    LET commit == build.work_dir.git_commit IN
    IF commit.given THEN <<":">> \o SubSeq(commit.text, 1, 7) ELSE <<>>

\* C20 as claimed: the tag is the repository URI, followed by ":" and the
\* first 7 characters of the revision when there is one.
C20_TagIsRepositoryUriAndRevision ==
    build.pc # "image_uri" => build.image_uri = build.repository_uri.text \o RevisionPart

\* C20: the tag is the repository URI, or "docker-project" when the URI is
\* empty or None, followed by ":" and the first 7 characters of the revision
\* when there is one; the tag set on the run is that tag.
C20_TagIsRepositoryUriOrDefaultAndRevision ==
    /\ build.pc # "image_uri" =>
           build.image_uri = (IF build.repository_uri.text = <<>>
                              THEN <<"docker-project">>
                              ELSE build.repository_uri.text) \o RevisionPart
    /\ build.result = "returned" => build.tag_uri = build.image_uri

\* C20 witness: an image with no repository URI, built from a commit, has
\* been tagged.
C20_Witness ==
    /\ build.result = "returned"
    /\ build.repository_uri.text = <<>>
    /\ build.work_dir.git_commit.given
    /\ Len(build.tag_uri) = 1 + 1 + 7

-----------------------------------------------------------------------------
(* _get_docker_command(), lines 525-566, and the functions it calls *)

\* Everything but the frame of _get_docker_command.
not_docker_call ==
    <<dispatch_vars, conda_envs, callers, conda_log, build, fs, resolve, kube, auth,
      util_vars>>

\* The tokens of a command: a word, "{key}={value}" and "%s:%s" of two paths.
Word(w) == [k |-> "word", a |-> <<w>>, b |-> <<>>]

EnvToken(key, value) == [k |-> "=", a |-> <<key>>, b |-> value]

MountToken(host, container) == [k |-> ":", a |-> host, b |-> container]

\* A path is the sequence of its segments; an absolute one begins with "/".
isabs(path) == path # <<>> /\ path[1] = "/"

\* os.path.join of two paths
join(a, b) == IF isabs(b) THEN b ELSE a \o b

\* The segments of a normalised path: "." dropped, ".." taking the segment
\* before it away, staying at the root of an absolute path.
RECURSIVE Normalised(_, _, _)
Normalised(segs, acc, abs) ==
    IF segs = <<>> THEN acc
    ELSE LET seg == Head(segs) IN
         Normalised(Tail(segs),
                    IF seg = "." THEN acc
                    ELSE IF seg = ".."
                    THEN (IF acc # <<>> /\ acc[Len(acc)] # ".."
                          THEN SubSeq(acc, 1, Len(acc) - 1)
                          ELSE IF abs THEN acc ELSE Append(acc, ".."))
                    ELSE Append(acc, seg),
                    abs)

\* Mutant: the path is left as it was joined.
normpath_AsJoined(path) == path

\* os.path.normpath
normpath(path) ==
    IF isabs(path) THEN <<"/">> \o Normalised(Tail(path), <<>>, TRUE)
    ELSE IF Normalised(path, <<>>, FALSE) = <<>> THEN <<".">>
    ELSE Normalised(path, <<>>, FALSE)

\* The directory the host process runs in.
Cwd == <<"/", "home">>

\* os.path.abspath
abspath(path) == normpath(join(Cwd, path))

_MLFLOW_DOCKER_WORKDIR_PATH == <<"/", "mlflow", "projects", "code">>

_MLFLOW_DOCKER_TRACKING_DIR_PATH == <<"/", "mlflow", "tmp", "mlruns">>

\* An insertion-ordered dict, as the sequence of its <<key, value>> items.
Put(d, key, value) ==
    IF \E i \in DOMAIN d : d[i][1] = key
    THEN [i \in DOMAIN d |-> IF d[i][1] = key THEN <<key, value>> ELSE d[i]]
    ELSE Append(d, <<key, value>>)

\* d.update(e)
RECURSIVE Update(_, _)
Update(d, e) == IF e = <<>> THEN d ELSE Update(Put(d, Head(e)[1], Head(e)[2]), Tail(e))

Get(d, key) == d[CHOOSE i \in DOMAIN d : d[i][1] = key][2]

Keys(d) == {d[i][1] : i \in DOMAIN d}

\* os.environ.get(name) of a variable that is set
Ambient(name) == <<"$", name>>

\* The variables of os.environ that the artifact helpers forward.
CredentialNames ==
    {"AWS_SECRET_ACCESS_KEY", "AWS_ACCESS_KEY_ID", "MLFLOW_S3_ENDPOINT_URL",
     "AZURE_STORAGE_CONNECTION_STRING", "AZURE_STORAGE_ACCESS_KEY",
     "GOOGLE_APPLICATION_CREDENTIALS", "MLFLOW_KERBEROS_TICKET_CACHE",
     "MLFLOW_KERBEROS_USER", "MLFLOW_PYARROW_EXTRA_CONF"}

\* os.environ, as the set of the names that are set.
Environs == {{}, CredentialNames \cup {"EXPECTED", "MLFLOW_RUN_ID"}}

\* envs = dict((k, v) for k, v in envs.items() if v is not None)
RECURSIVE Forwarded(_, _)
Forwarded(names, environ) ==
    IF names = <<>> THEN <<>>
    ELSE (IF Head(names) \in environ THEN <<<<Head(names), Ambient(Head(names))>>>> ELSE <<>>)
         \o Forwarded(Tail(names), environ)

\* lines 458-467
_get_run_env_vars(run_id, exp_id, tracking_uri) ==
    <<<<"MLFLOW_RUN_ID", <<run_id>>>>,
      <<"MLFLOW_TRACKING_URI", <<tracking_uri>>>>,
      <<"MLFLOW_EXPERIMENT_ID", <<exp_id>>>>>>

\* A tracking URI as urllib.parse.urlparse splits it; `what` says what the
\* URI is: a local file store, a local SQLite store, Databricks, or remote.
Uri(text, scheme, netloc, path, what) ==
    [text |-> text, scheme |-> scheme, netloc |-> netloc, path |-> path, what |-> what]

TrackingUris ==
    {Uri("mlruns", "", "", <<"mlruns">>, "file"),
     Uri("file:///tmp/mlruns", "file", "", <<"/", "tmp", "mlruns">>, "file"),
     Uri("sqlite:///db", "sqlite", "", <<"/", "db">>, "sqlite"),
     Uri("file://host/mlruns", "file", "host", <<"/", "mlruns">>, "remote"),
     Uri("http://host", "http", "host", <<>>, "remote"),
     Uri("databricks", "", "", <<"databricks">>, "databricks"),
     Uri("databricks://profile", "databricks", "profile", <<>>, "databricks")}

\* mlflow.utils.uri.is_databricks_uri
is_databricks_uri(uri) == uri.scheme = "databricks" \/ uri.text = "databricks"

\* databricks_utils.get_databricks_host_creds(profile): "" is a field not set
DatabricksConfigs ==
    {[host |-> "https://dbc", username |-> "", password |-> "", token |-> "dapi",
      ignore_tls_verification |-> FALSE],
     [host |-> "https://dbc", username |-> "user", password |-> "pass", token |-> "",
      ignore_tls_verification |-> TRUE]}

\* Mutant: "databricks" is parsed like any other URI.
_get_local_uri_or_none_Unchecked(uri) ==
    IF uri.netloc = "" /\ uri.scheme \in {"", "file", "sqlite"}
    THEN [is_none |-> FALSE, path |-> uri.path,
          uri |-> IF uri.scheme = "sqlite" THEN "sqlite:////mlflow/tmp/mlruns"
                  ELSE "file:///mlflow/tmp/mlruns"]
    ELSE [is_none |-> TRUE, path |-> <<>>, uri |-> ""]

\* lines 510-522: the local path and the URI inside the container, or None
_get_local_uri_or_none(uri) ==
    IF uri.text = "databricks"
    THEN [is_none |-> TRUE, path |-> <<>>, uri |-> ""]
    ELSE IF uri.netloc = "" /\ uri.scheme \in {"", "file", "sqlite"}
    THEN [is_none |-> FALSE, path |-> uri.path,
          uri |-> IF uri.scheme = "sqlite" THEN "sqlite:////mlflow/tmp/mlruns"
                  ELSE "file:///mlflow/tmp/mlruns"]
    ELSE [is_none |-> TRUE, path |-> <<>>, uri |-> ""]

\* lines 783-795: the variables of a Databricks profile
DatabricksEnvs(config) ==
    <<<<"MLFLOW_TRACKING_URI", <<"databricks">>>>, <<"DATABRICKS_HOST", <<config.host>>>>>>
    \o (IF config.username # "" THEN <<<<"DATABRICKS_USERNAME", <<config.username>>>>>>
        ELSE <<>>)
    \o (IF config.password # "" THEN <<<<"DATABRICKS_PASSWORD", <<config.password>>>>>>
        ELSE <<>>)
    \o (IF config.token # "" THEN <<<<"DATABRICKS_TOKEN", <<config.token>>>>>> ELSE <<>>)
    \o (IF config.ignore_tls_verification THEN <<<<"DATABRICKS_INSECURE", <<"True">>>>>>
        ELSE <<>>)

\* lines 772-796
_get_docker_tracking_cmd_and_envs(tracking_uri, config) ==
    LET local == _get_local_uri_or_none(tracking_uri)
        cmds == IF ~local.is_none
                THEN <<Word("-v"), MountToken(local.path, _MLFLOW_DOCKER_TRACKING_DIR_PATH)>>
                ELSE <<>>
        local_envs == IF ~local.is_none
                      THEN <<<<"MLFLOW_TRACKING_URI", <<local.uri>>>>>>
                      ELSE <<>>
    IN [cmds |-> cmds,
        envs |-> IF is_databricks_uri(tracking_uri)
                 THEN Update(local_envs, DatabricksEnvs(config))
                 ELSE local_envs]

\* The longest artifact directory, in segments.
MaxSegs == 2

Segments == {"a", ".."}

ArtifactDirs ==
    UNION {[1..n -> Segments] : n \in 1..MaxSegs}
    \cup {<<"/">> \o d : d \in UNION {[1..n -> Segments] : n \in 0..MaxSegs}}

\* get_artifact_repository(artifact_uri): the repository's type and, for a
\* local one, its directory
ArtifactRepos ==
    {[kind |-> "local", artifact_dir |-> d] : d \in ArtifactDirs}
    \cup {[kind |-> k, artifact_dir |-> <<>>] : k \in {"s3", "azure", "hdfs", "gcs", "other"}}

\* lines 686-693
_get_local_artifact_cmd_and_envs(artifact_repo) ==
    LET artifact_dir == artifact_repo.artifact_dir
        container_path == IF ~isabs(artifact_dir)
                          THEN normpath(join(_MLFLOW_DOCKER_WORKDIR_PATH, artifact_dir))
                          ELSE artifact_dir
        abs_artifact_dir == abspath(artifact_dir)
    IN [cmds |-> <<Word("-v"), MountToken(abs_artifact_dir, container_path)>>,
        envs |-> <<>>]

\* lines 696-713
_get_s3_artifact_cmd_and_envs(environ, aws_exists) ==
    [cmds |-> IF aws_exists
              THEN <<Word("-v"), MountToken(<<"~", ".aws">>, <<"/", ".aws">>)>>
              ELSE <<>>,
     envs |-> Forwarded(<<"AWS_SECRET_ACCESS_KEY", "AWS_ACCESS_KEY_ID",
                          "MLFLOW_S3_ENDPOINT_URL">>, environ)]

\* lines 716-723
_get_azure_blob_artifact_cmd_and_envs(environ) ==
    [cmds |-> <<>>,
     envs |-> Forwarded(<<"AZURE_STORAGE_CONNECTION_STRING", "AZURE_STORAGE_ACCESS_KEY">>,
                        environ)]

\* lines 726-735
_get_gcs_artifact_cmd_and_envs(environ) ==
    IF "GOOGLE_APPLICATION_CREDENTIALS" \in environ
    THEN [cmds |-> <<Word("-v"), MountToken(Ambient("GOOGLE_APPLICATION_CREDENTIALS"),
                                            <<"/", ".gcs">>)>>,
          envs |-> <<<<"GOOGLE_APPLICATION_CREDENTIALS", <<"/.gcs">>>>>>]
    ELSE [cmds |-> <<>>, envs |-> <<>>]

\* lines 738-751
_get_hdfs_artifact_cmd_and_envs(environ) ==
    [cmds |-> IF "MLFLOW_KERBEROS_TICKET_CACHE" \in environ
              THEN <<Word("-v"), MountToken(Ambient("MLFLOW_KERBEROS_TICKET_CACHE"),
                                            Ambient("MLFLOW_KERBEROS_TICKET_CACHE"))>>
              ELSE <<>>,
     envs |-> Forwarded(<<"MLFLOW_KERBEROS_TICKET_CACHE", "MLFLOW_KERBEROS_USER",
                          "MLFLOW_PYARROW_EXTRA_CONF">>, environ)]

\* lines 754-769: the helper of the repository's type, nothing for other types
_get_docker_artifact_storage_cmd_and_envs(artifact_repo, environ, aws_exists) ==
    CASE artifact_repo.kind = "local" -> _get_local_artifact_cmd_and_envs(artifact_repo)
      [] artifact_repo.kind = "s3" -> _get_s3_artifact_cmd_and_envs(environ, aws_exists)
      [] artifact_repo.kind = "azure" -> _get_azure_blob_artifact_cmd_and_envs(environ)
      [] artifact_repo.kind = "hdfs" -> _get_hdfs_artifact_cmd_and_envs(environ)
      [] artifact_repo.kind = "gcs" -> _get_gcs_artifact_cmd_and_envs(environ)
      [] OTHER -> [cmds |-> <<>>, envs |-> <<>>]

\* An entry of user_env_vars: a [name, value] list, or a name to copy.
Lit(name, value) == [list |-> TRUE, name |-> name, value |-> value]

Copy(name) == [list |-> FALSE, name |-> name, value |-> ""]

UserEntries ==
    {Lit("A", "1"), Lit("MLFLOW_RUN_ID", "run9"), Copy("EXPECTED"), Copy("ABSENT")}

\* The longest list of user_env_vars.
MaxEntries == 2

UserEnvVars ==
    {None} \cup {Some(l) : l \in UNION {[1..n -> UserEntries] : n \in 0..MaxEntries}}

DockerArgs == {None, Some(<<>>), Some(<<<<"gpus", "all">>>>)}

Volumes == {None, Some(<<"/data:/data">>), Some(<<"/data:/data", "/x:/y">>)}

\* image.tags of the image that was built
ImageTagLists == {<<"project:abc1234">>, <<"project:abc1234", "project:latest">>}

\* lines 528-531: the base command and the flags of docker_args
RECURSIVE ArgFlags(_)
ArgFlags(items) ==
    IF items = <<>> THEN <<>>
    ELSE <<[k |-> "word", a |-> <<"--", Head(items)[1]>>, b |-> <<>>],
           Word(Head(items)[2])>> \o ArgFlags(Tail(items))

\* Mutant: the artifact flags come before the tracking flags.
ConnectivityFlags_ArtifactFirst(tracking_cmds, artifact_cmds) ==
    artifact_cmds \o tracking_cmds

\* line 541: cmd += tracking_cmds + artifact_cmds
ConnectivityFlags(tracking_cmds, artifact_cmds) == tracking_cmds \o artifact_cmds

\* lines 544-557: the loop over user_env_vars; `all` is the whole list, which
\* the message joins with ", " (a TypeError when an entry is a list)
RECURSIVE UserEnv(_, _, _, _)
UserEnv(entries, env_vars, environ, all) ==
    IF entries = <<>> THEN [env_vars |-> env_vars, raised |-> "", missing |-> ""]
    ELSE LET user_entry == Head(entries) IN
         IF user_entry.list
         THEN UserEnv(Tail(entries), Put(env_vars, user_entry.name, <<user_entry.value>>),
                      environ, all)
         ELSE IF user_entry.name \notin environ
         THEN IF \E i \in DOMAIN all : all[i].list
              THEN [env_vars |-> env_vars, raised |-> "TypeError", missing |-> ""]
              ELSE [env_vars |-> env_vars, raised |-> "MlflowException",
                    missing |-> user_entry.name]
         ELSE UserEnv(Tail(entries), Put(env_vars, user_entry.name, Ambient(user_entry.name)),
                      environ, all)

\* lines 559-561
RECURSIVE VolumeFlags(_)
VolumeFlags(volumes) ==
    IF volumes = <<>> THEN <<>>
    ELSE <<Word("-v"), Word(Head(volumes))>> \o VolumeFlags(Tail(volumes))

\* lines 563-564
RECURSIVE EnvFlags(_)
EnvFlags(env_vars) ==
    IF env_vars = <<>> THEN <<>>
    ELSE <<Word("-e"), EnvToken(Head(env_vars)[1], Head(env_vars)[2])>>
         \o EnvFlags(Tail(env_vars))

\* Mutant: the image is named before the environment variables.
Finish_ImageFirst(cmd, env_vars, image) ==
    cmd \o <<Word(image[1])>> \o EnvFlags(env_vars)

\* lines 563-566: the -e flags, then image.tags[0]
Finish(cmd, env_vars, image) == cmd \o EnvFlags(env_vars) \o <<Word(image[1])>>

DockerFrame(environ, image) ==
    [pc |-> "docker_args", environ |-> environ, image |-> image,
     run_id |-> "run1", exp_id |-> "exp1",
     docker_args |-> None, tracking_uri |-> Uri("", "", "", <<>>, ""),
     artifact_repo |-> [kind |-> "", artifact_dir |-> <<>>],
     user_env_vars |-> None, volumes |-> None,
     tracking |-> [cmds |-> <<>>, envs |-> <<>>],
     artifact |-> [cmds |-> <<>>, envs |-> <<>>],
     cmd |-> <<>>, env_vars |-> <<>>, result |-> "pending", missing |-> ""]

InitDocker ==
    /\ DispatchIdle
    /\ conda_envs = {} /\ callers = <<>> /\ conda_log = <<>>
    /\ build = <<>> /\ fs = {}
    /\ docker_call \in {DockerFrame(e, i) : e \in Environs, i \in ImageTagLists}
    /\ resolve = <<>> /\ kube = <<>> /\ auth = <<>> /\ UtilsIdle

\* lines 526-531
DockerBase ==
    /\ docker_call.pc = "docker_args"
    /\ \E docker_args \in DockerArgs :
         docker_call' = [docker_call EXCEPT
             !.pc = "tracking",
             !.docker_args = docker_args,
             !.cmd = <<Word("docker"), Word("run"), Word("--rm")>>
                     \o ArgFlags(docker_args.text)]
    /\ UNCHANGED not_docker_call

\* lines 533-537: the run's variables and what the tracking URI needs
DockerTracking ==
    /\ docker_call.pc = "tracking"
    /\ \E tracking_uri \in TrackingUris, config \in DatabricksConfigs :
         docker_call' = [docker_call EXCEPT
             !.pc = "artifact",
             !.tracking_uri = tracking_uri,
             !.env_vars = _get_run_env_vars(docker_call.run_id, docker_call.exp_id,
                                            tracking_uri.text),
             !.tracking = _get_docker_tracking_cmd_and_envs(tracking_uri, config)]
    /\ UNCHANGED not_docker_call

\* lines 538-543: what the artifact repository needs; both go into the command
DockerArtifact ==
    /\ docker_call.pc = "artifact"
    /\ \E artifact_repo \in ArtifactRepos, aws_exists \in BOOLEAN :
         LET artifact == _get_docker_artifact_storage_cmd_and_envs(
                             artifact_repo, docker_call.environ, aws_exists)
         IN docker_call' = [docker_call EXCEPT
                !.pc = "user_env_vars",
                !.artifact_repo = artifact_repo,
                !.artifact = artifact,
                !.cmd = docker_call.cmd
                        \o ConnectivityFlags(docker_call.tracking.cmds, artifact.cmds),
                !.env_vars = Update(Update(docker_call.env_vars, docker_call.tracking.envs),
                                    artifact.envs)]
    /\ UNCHANGED not_docker_call

\* lines 544-557
DockerUserEnv ==
    /\ docker_call.pc = "user_env_vars"
    /\ \E user_env_vars \in UserEnvVars :
         LET r == UserEnv(user_env_vars.text, docker_call.env_vars, docker_call.environ,
                          user_env_vars.text)
         IN docker_call' = [docker_call EXCEPT
                !.pc = IF r.raised = "" THEN "volumes" ELSE "done",
                !.user_env_vars = user_env_vars,
                !.env_vars = r.env_vars,
                !.result = IF r.raised = "" THEN "pending" ELSE r.raised,
                !.missing = r.missing]
    /\ UNCHANGED not_docker_call

\* lines 559-561
DockerVolumes ==
    /\ docker_call.pc = "volumes"
    /\ \E volumes \in Volumes :
         docker_call' = [docker_call EXCEPT
             !.pc = "env_flags",
             !.volumes = volumes,
             !.cmd = docker_call.cmd \o VolumeFlags(volumes.text)]
    /\ UNCHANGED not_docker_call

\* lines 563-566
DockerFinish ==
    /\ docker_call.pc = "env_flags"
    /\ docker_call' = [docker_call EXCEPT
           !.pc = "done",
           !.cmd = Finish(docker_call.cmd, docker_call.env_vars, docker_call.image),
           !.result = "returned"]
    /\ UNCHANGED not_docker_call

NextDocker ==
    \/ DockerBase \/ DockerTracking \/ DockerArtifact \/ DockerUserEnv \/ DockerVolumes
    \/ DockerFinish

SpecDocker == InitDocker /\ [][NextDocker]_vars

-----------------------------------------------------------------------------
(* Properties of the docker command *)

DockerReturned == docker_call.result = "returned"

\* C21: whenever _get_docker_command returns, the last token of the command
\* is image.tags[0], after the base command and at least the run's variables.
C21_ImageIsLastToken ==
    DockerReturned =>
        LET cmd == docker_call.cmd IN
        /\ Len(cmd) > 3 + 2 * 3
        /\ cmd[Len(cmd)] = Word(docker_call.image[1])
        /\ cmd[Len(cmd) - 1].k = "="

\* C21 witness: a command with docker arguments, user variables and volumes
\* for an image of two tags has been returned.
C21_Witness ==
    /\ DockerReturned
    /\ docker_call.docker_args.text # <<>>
    /\ docker_call.user_env_vars.text # <<>>
    /\ docker_call.volumes.text # <<>>
    /\ Len(docker_call.image) = 2

\* What the token at position i of the command is.
IsEnvFlag(i) ==
    LET cmd == docker_call.cmd IN cmd[i] = Word("-e") \/ cmd[i].k = "="

IsExplicitVolume(i) ==
    LET cmd == docker_call.cmd IN
    \/ cmd[i] = Word("-v") /\ i < Len(cmd) /\ cmd[i + 1].k = "word"
    \/ i > 1 /\ cmd[i - 1] = Word("-v") /\ cmd[i].k = "word"

IsTrackingMount(i) ==
    LET cmd == docker_call.cmd IN
    \/ cmd[i].k = ":" /\ cmd[i].b = _MLFLOW_DOCKER_TRACKING_DIR_PATH
    \/ /\ cmd[i] = Word("-v") /\ i < Len(cmd) /\ cmd[i + 1].k = ":"
       /\ cmd[i + 1].b = _MLFLOW_DOCKER_TRACKING_DIR_PATH

IsMount(i) ==
    LET cmd == docker_call.cmd IN
    cmd[i].k = ":" \/ (cmd[i] = Word("-v") /\ i < Len(cmd) /\ cmd[i + 1].k = ":")

\* The place of token i in an order that puts the -e flags at `env` and the
\* explicit volumes at `vol`.
Rank(i, env, vol) ==
    IF i <= 3 THEN 0
    ELSE IF i = Len(docker_call.cmd) THEN 6
    ELSE IF IsEnvFlag(i) THEN env
    ELSE IF IsExplicitVolume(i) THEN vol
    ELSE IF IsTrackingMount(i) THEN 2
    ELSE IF IsMount(i) THEN 3
    ELSE 1

\* C22 as claimed: base flags, extra flags, tracking flags, artifact flags,
\* -e flags, explicit volumes, image.
C22_EnvFlagsBeforeVolumes ==
    DockerReturned =>
        \A i, j \in DOMAIN docker_call.cmd : i < j => Rank(i, 4, 5) <= Rank(j, 4, 5)

\* C22: the tokens are in this order: docker run --rm, the flags of
\* docker_args, the tracking mount, the artifact mounts, the explicit
\* volumes, the -e flags of every variable, the image.
C22_VolumesBeforeEnvFlags ==
    DockerReturned =>
        LET cmd == docker_call.cmd IN
        /\ SubSeq(cmd, 1, 3) = <<Word("docker"), Word("run"), Word("--rm")>>
        /\ \A i, j \in DOMAIN cmd : i < j => Rank(i, 5, 4) <= Rank(j, 5, 4)
        /\ \A v \in Range(docker_call.volumes.text) :
               \E i \in DOMAIN cmd : cmd[i] = Word(v) /\ cmd[i - 1] = Word("-v")
        /\ \A key \in Keys(docker_call.env_vars) : \E i \in DOMAIN cmd : cmd[i].a = <<key>>

\* C22 witness: a command with flags of every kind has been returned.
C22_Witness ==
    /\ DockerReturned
    /\ \A r \in 0..6 : \E i \in DOMAIN docker_call.cmd : Rank(i, 5, 4) = r

PastArtifact == docker_call.pc \notin {"docker_args", "tracking", "artifact"}

ArtifactMount == docker_call.artifact.cmds[2]

IsPrefix(p, q) == Len(p) <= Len(q) /\ SubSeq(q, 1, Len(p)) = p

\* A relative directory that leaves the directory it starts from.
ClimbsAbove(dir) ==
    \E n \in DOMAIN dir :
        Cardinality({i \in 1..n : dir[i] = ".."}) > Cardinality({i \in 1..n : dir[i] # ".."})

PastTracking == docker_call.pc \notin {"docker_args", "tracking"}

DatabricksNames ==
    {"DATABRICKS_HOST", "DATABRICKS_USERNAME", "DATABRICKS_PASSWORD", "DATABRICKS_TOKEN",
     "DATABRICKS_INSECURE"}

\* C24: a mount of the store at /mlflow/tmp/mlruns with the tracking URI
\* rewritten to it, exactly for a local file or local SQLite URI; the
\* Databricks host and credentials and no mount, exactly for a Databricks
\* URI; nothing for any other URI; never a mount together with credentials.
C24_MountOrCredentials ==
    PastTracking =>
        LET uri == docker_call.tracking_uri
            cmds == docker_call.tracking.cmds
            envs == docker_call.tracking.envs
            credentials == Keys(envs) \cap DatabricksNames
        IN /\ cmds # <<>> <=> uri.what \in {"file", "sqlite"}
           /\ cmds # <<>> =>
                  /\ cmds = <<Word("-v"), MountToken(uri.path, _MLFLOW_DOCKER_TRACKING_DIR_PATH)>>
                  /\ envs = <<<<"MLFLOW_TRACKING_URI",
                                <<IF uri.what = "sqlite" THEN "sqlite:////mlflow/tmp/mlruns"
                                  ELSE "file:///mlflow/tmp/mlruns">>>>>>
           /\ credentials # {} <=> uri.what = "databricks"
           /\ credentials # {} =>
                  /\ "DATABRICKS_HOST" \in credentials
                  /\ Get(envs, "MLFLOW_TRACKING_URI") = <<"databricks">>
           /\ uri.what = "remote" => cmds = <<>> /\ envs = <<>>
           /\ ~(cmds # <<>> /\ credentials # {})

\* C24 witness: the tracking URI "databricks" has been given its credentials.
C24_Witness ==
    /\ PastTracking
    /\ docker_call.tracking_uri.text = "databricks"
    /\ "DATABRICKS_TOKEN" \in Keys(docker_call.tracking.envs)

PastUserEnv == docker_call.pc \in {"volumes", "env_flags", "done"}

\* The names user_env_vars asks to copy that os.environ does not have.
MissingNames ==
    {docker_call.user_env_vars.text[i].name :
         i \in {j \in DOMAIN docker_call.user_env_vars.text :
                    /\ ~docker_call.user_env_vars.text[j].list
                    /\ docker_call.user_env_vars.text[j].name \notin docker_call.environ}}

\* C25: when user_env_vars asks to copy a name that os.environ does not have,
\* _get_docker_command ends with an MlflowException naming a missing variable
\* and returns no command.
C25_MissingVariableNamed ==
    (PastUserEnv /\ MissingNames # {}) =>
        /\ docker_call.result = "MlflowException"
        /\ docker_call.missing \in MissingNames

\* C26: in the command returned the variables MLFLOW_RUN_ID and
\* MLFLOW_EXPERIMENT_ID are given once each, with the run's id and the run's
\* experiment id, and MLFLOW_TRACKING_URI is given.
C26_RunVariablesAreTheRuns ==
    DockerReturned =>
        LET cmd == docker_call.cmd IN
        /\ \E i \in DOMAIN cmd : cmd[i] = EnvToken("MLFLOW_RUN_ID", <<docker_call.run_id>>)
        /\ \E i \in DOMAIN cmd :
               cmd[i] = EnvToken("MLFLOW_EXPERIMENT_ID", <<docker_call.exp_id>>)
        /\ \E i \in DOMAIN cmd : cmd[i].k = "=" /\ cmd[i].a = <<"MLFLOW_TRACKING_URI">>
        /\ \A i \in DOMAIN cmd :
               cmd[i].k = "=" /\ cmd[i].a = <<"MLFLOW_RUN_ID">>
               => cmd[i].b = <<docker_call.run_id>>

-----------------------------------------------------------------------------
(* Properties of the kubernetes configuration *)

EmptyConfig(cfg) == cfg.kind = "none" \/ (~cfg.tpl_path /\ ~cfg.repo /\ cfg.run_id = NoRun)

KubernetesEffects == {"_build_docker_image", "push_image_to_registry", "run_kubernetes_job"}

ParseRaised ==
    \E i \in DOMAIN trace : trace[i] = Ev("_parse_kubernetes_config", active_run, "raised")

DockerValidated ==
    /\ \E i \in DOMAIN trace : trace[i] = Ev("_validate_docker_env", active_run, "ok")
    /\ \E i \in DOMAIN trace : trace[i] = Ev("_validate_docker_installation", active_run, "ok")

\* C27: with the kubernetes backend a configuration that is absent or empty,
\* lacks kube-job-template-path, names a template that does not exist or
\* lacks repository-uri is rejected by _parse_kubernetes_config with an
\* ExecutionException naming what is missing, and with such a configuration
\* no image is built, nothing is pushed and no job is submitted.
C27_BadKubernetesConfigRejected ==
    /\ ParseRaised =>
           /\ outcome.type = "ExecutionException"
           /\ outcome.msg \in {"backend_config", "kube-job-template-path", "kube-job-template",
                               "repository-uri"}
           /\ outcome.msg = "backend_config" <=> EmptyConfig(cluster_spec_dict)
           /\ outcome.msg = "kube-job-template-path"
              <=> ~EmptyConfig(cluster_spec_dict) /\ ~cluster_spec_dict.tpl_path
           /\ outcome.msg = "repository-uri" => ~cluster_spec_dict.repo
           /\ \A i \in DOMAIN trace : trace[i].ev \notin KubernetesEffects
           /\ proc = "none" /\ submitted = NoRun
    /\ (/\ args.backend = "kubernetes"
        /\ EmptyConfig(cluster_spec_dict) \/ ~cluster_spec_dict.tpl_path \/ ~cluster_spec_dict.repo)
       => /\ \A i \in DOMAIN trace : trace[i].ev \notin KubernetesEffects
          /\ proc = "none" /\ submitted = NoRun
          /\ pc = "done" => outcome.type # "returned"
          /\ DockerValidated /\ pc = "done" => ParseRaised

\* C27 witness: a kubernetes configuration with a template and no
\* repository-uri has been rejected.
C27_Witness ==
    /\ ParseRaised
    /\ cluster_spec_dict.tpl_path /\ ~cluster_spec_dict.repo
    /\ outcome.msg = "repository-uri"

-----------------------------------------------------------------------------
(* _resolve_experiment_id *)

not_resolve ==
    <<dispatch_vars, conda_envs, callers, conda_log, build, fs, docker_call, kube, auth,
      util_vars>>

\* A Python argument: None, an int or a str, with the text str() gives it.
PyNone == [kind |-> "None", text |-> ""]

PyInt(text) == [kind |-> "int", text |-> text]

PyStr(text) == [kind |-> "str", text |-> text]

\* The truth value `if x` tests.
Truthy(x) ==
    CASE x.kind = "None" -> FALSE
      [] x.kind = "int" -> x.text # "0"
      [] OTHER -> x.text # ""

ExperimentNames == {PyNone, PyStr("a"), PyStr("b")}

ExperimentIds == {PyNone, PyInt("0"), PyInt("1"), PyStr("1")}

\* The experiments of the tracking service, by name; the id of the n-th is
\* ExperimentIdOf[n].
ExperimentIdOf == <<"0", "1", "2", "3">>

ExperimentStores ==
    {<<"Default">>, <<"Default", "a">>, <<"Default", "b">>, <<"Default", "b", "a">>}

\* MlflowClient.get_experiment_by_name: the position of the experiment, 0 for None
get_experiment_by_name(store, name) ==
    IF \E n \in DOMAIN store : store[n] = name
    THEN CHOOSE n \in DOMAIN store : store[n] = name
    ELSE 0

\* MlflowClient.create_experiment
create_experiment(store, name) == Append(store, name)

\* mlflow.tracking.fluent._get_experiment_id: the active experiment, the one
\* of the environment or the default one
ActiveExperimentIds == {"0", "1"}

\* lines 71-72
IdWins(experiment_name, exp_id) == Truthy(exp_id)

ResolveFrame(name, id, store, active) ==
    [pc |-> "check", experiment_name |-> name, experiment_id |-> id, store |-> store,
     before |-> store, active |-> active, result |-> "pending", value |-> "",
     creates |-> 0]

InitResolve ==
    /\ DispatchIdle
    /\ conda_envs = {} /\ callers = <<>> /\ conda_log = <<>>
    /\ build = <<>> /\ fs = {}
    /\ docker_call = <<>> /\ kube = <<>> /\ auth = <<>> /\ UtilsIdle
    /\ resolve \in {ResolveFrame(name, id, store, active) :
                        name \in ExperimentNames, id \in ExperimentIds,
                        store \in ExperimentStores, active \in ActiveExperimentIds}

\* lines 68-72
ResolveCheck ==
    /\ resolve.pc = "check"
    /\ resolve' =
         IF Truthy(resolve.experiment_name) /\ Truthy(resolve.experiment_id)
         THEN [resolve EXCEPT !.pc = "done", !.result = "MlflowException"]
         ELSE IF IdWins(resolve.experiment_name, resolve.experiment_id)
         THEN [resolve EXCEPT !.pc = "done", !.result = "returned",
                              !.value = resolve.experiment_id.text]
         ELSE IF Truthy(resolve.experiment_name)
         THEN [resolve EXCEPT !.pc = "get_experiment_by_name"]
         ELSE [resolve EXCEPT !.pc = "_get_experiment_id"]
    /\ UNCHANGED not_resolve

\* lines 74-78
ResolveGet ==
    /\ resolve.pc = "get_experiment_by_name"
    /\ LET exp == get_experiment_by_name(resolve.store, resolve.experiment_name.text) IN
       resolve' =
         IF exp # 0
         THEN [resolve EXCEPT !.pc = "done", !.result = "returned",
                              !.value = ExperimentIdOf[exp]]
         ELSE [resolve EXCEPT !.pc = "create_experiment"]
    /\ UNCHANGED not_resolve

\* lines 79-81
ResolveCreate ==
    /\ resolve.pc = "create_experiment"
    /\ LET store == create_experiment(resolve.store, resolve.experiment_name.text) IN
       resolve' = [resolve EXCEPT !.pc = "done", !.result = "returned", !.store = store,
                                  !.value = ExperimentIdOf[Len(store)],
                                  !.creates = resolve.creates + 1]
    /\ UNCHANGED not_resolve

\* line 83
ResolveDefault ==
    /\ resolve.pc = "_get_experiment_id"
    /\ resolve' = [resolve EXCEPT !.pc = "done", !.result = "returned",
                                  !.value = resolve.active]
    /\ UNCHANGED not_resolve

NextResolve == ResolveCheck \/ ResolveGet \/ ResolveCreate \/ ResolveDefault

SpecResolve == InitResolve /\ [][NextResolve]_vars

-----------------------------------------------------------------------------
(* Properties of _resolve_experiment_id *)

Given(x) == x.kind # "None"

\* C28: _resolve_experiment_id raises when a name and an id are both given;
\* returns str(id) when only an id is given; for a name alone returns the id
\* of the experiment of that name, creating it, once, only when there is
\* none; and creates nothing when neither is given.
C28_ResolvesByWhatIsGiven ==
    resolve.pc = "done" =>
        LET name == resolve.experiment_name
            id == resolve.experiment_id
        IN /\ Given(name) /\ Given(id) =>
                  resolve.result = "MlflowException" /\ resolve.store = resolve.before
           /\ ~Given(name) /\ Given(id) =>
                  /\ resolve.result = "returned" /\ resolve.value = id.text
                  /\ resolve.store = resolve.before
           /\ Given(name) /\ ~Given(id) =>
                  /\ resolve.result = "returned"
                  /\ IF \E n \in DOMAIN resolve.before : resolve.before[n] = name.text
                     THEN /\ resolve.store = resolve.before
                          /\ resolve.before[CHOOSE n \in 1..4 : ExperimentIdOf[n] = resolve.value]
                             = name.text
                     ELSE /\ resolve.store = Append(resolve.before, name.text)
                          /\ resolve.creates = 1
                          /\ resolve.value = ExperimentIdOf[Len(resolve.store)]
           /\ ~Given(name) /\ ~Given(id) =>
                  resolve.result = "returned" /\ resolve.store = resolve.before

-----------------------------------------------------------------------------
(* The backend configuration in the kubernetes branch of _run *)

not_kube ==
    <<dispatch_vars, conda_envs, callers, conda_log, build, fs, docker_call, resolve, auth,
      util_vars>>

\* A dict is a function from its keys to their values.  Dicts are objects:
\* the heap is the sequence of the dicts there are, a reference is a position
\* of it and NoneRef is None.
NoneRef == 0

Absent == "absent"

Dict(path, context, repository, template) ==
    LET items == [k \in {"kube-job-template-path", "kube-context", "repository-uri",
                         "kube-job-template"} |->
                     CASE k = "kube-job-template-path" -> path
                       [] k = "kube-context" -> context
                       [] k = "repository-uri" -> repository
                       [] OTHER -> template]
    IN [k \in {key \in DOMAIN items : items[key] # Absent} |-> items[k]]

\* backend_config of _run: None or a dict
KubeBackendConfigs ==
    {Dict(path, context, repository, template) :
         path \in {Absent, "job.yaml"}, context \in {Absent, "ctx"},
         repository \in {Absent, "", "registry/image"}, template \in {Absent, "stale"}}

\* d[key] = value
SetItem(d, key, value) ==
    [k \in DOMAIN d \cup {key} |-> IF k = key THEN value ELSE d[k]]

\* Mutant: the same dict under another name.
copy_SameObject(heap, ref) == [heap |-> heap, ref |-> ref]

\* line 597, dict.copy: a new dict with the items of the old one
copy(heap, ref) == [heap |-> Append(heap, heap[ref]), ref |-> Len(heap) + 1]

KubeFrame(heap, ref, template_exists) ==
    [pc |-> "not_backend_config", heap |-> heap, backend_config |-> ref,
     before |-> heap, kube_config |-> NoneRef, template_exists |-> template_exists,
     result |-> "pending", msg |-> "", used |-> <<>>]

InitKube ==
    /\ DispatchIdle
    /\ conda_envs = {} /\ callers = <<>> /\ conda_log = <<>>
    /\ build = <<>> /\ fs = {}
    /\ docker_call = <<>> /\ resolve = <<>> /\ auth = <<>> /\ UtilsIdle
    /\ \E template_exists \in BOOLEAN :
         \/ kube = KubeFrame(<<>>, NoneRef, template_exists)
         \/ \E d \in KubeBackendConfigs : kube = KubeFrame(<<d>>, 1, template_exists)

KubeRaise(msg) == [kube EXCEPT !.pc = "done", !.result = "ExecutionException", !.msg = msg]

\* lines 595-596
KubeNotConfig ==
    /\ kube.pc = "not_backend_config"
    /\ kube' = IF kube.backend_config = NoneRef
                  \/ DOMAIN kube.heap[kube.backend_config] = {}
               THEN KubeRaise("backend_config")
               ELSE [kube EXCEPT !.pc = "copy"]
    /\ UNCHANGED not_kube

\* line 597
KubeCopy ==
    /\ kube.pc = "copy"
    /\ LET c == copy(kube.heap, kube.backend_config) IN
       kube' = [kube EXCEPT !.pc = "kube-job-template-path", !.heap = c.heap,
                            !.kube_config = c.ref]
    /\ UNCHANGED not_kube

\* lines 598-609
KubeTemplate ==
    /\ kube.pc = "kube-job-template-path"
    /\ kube' =
         IF "kube-job-template-path" \notin DOMAIN kube.heap[kube.backend_config]
         THEN KubeRaise("kube-job-template-path")
         ELSE IF ~kube.template_exists
         THEN KubeRaise("kube-job-template")
         ELSE [kube EXCEPT
                   !.pc = "repository-uri",
                   !.heap[kube.kube_config] =
                       SetItem(kube.heap[kube.kube_config], "kube-job-template", "yaml_obj")]
    /\ UNCHANGED not_kube

\* lines 610-615
KubeRepository ==
    /\ kube.pc = "repository-uri"
    /\ kube' = IF "repository-uri" \notin DOMAIN kube.heap[kube.backend_config]
               THEN KubeRaise("repository-uri")
               ELSE [kube EXCEPT !.pc = "_build_docker_image"]
    /\ UNCHANGED not_kube

\* lines 167-170: the image is built for kube_config["repository-uri"]
KubeBuild ==
    /\ kube.pc = "_build_docker_image"
    /\ kube' = [kube EXCEPT
                    !.pc = "run_kubernetes_job",
                    !.used = Append(kube.used, kube.heap[kube.kube_config]["repository-uri"])]
    /\ UNCHANGED not_kube

\* lines 174-187: the job is given kube_config.get('kube-context', None) and
\* kube_config['kube-job-template']
KubeJob ==
    /\ kube.pc = "run_kubernetes_job"
    /\ LET kube_config == kube.heap[kube.kube_config] IN
       kube' = [kube EXCEPT
                    !.pc = "done", !.result = "returned",
                    !.used = kube.used
                             \o <<IF "kube-context" \in DOMAIN kube_config
                                  THEN kube_config["kube-context"] ELSE "None",
                                  kube_config["kube-job-template"]>>]
    /\ UNCHANGED not_kube

NextKube == KubeNotConfig \/ KubeCopy \/ KubeTemplate \/ KubeRepository \/ KubeBuild \/ KubeJob

SpecKube == InitKube /\ [][NextKube]_vars

-----------------------------------------------------------------------------
(* Properties of the backend configuration *)

\* C29: at every point of the kubernetes branch the dict _run was given has
\* the items it had on entry; the loaded template is an item of another dict,
\* which has the items of the first besides, and it is the one the job is
\* submitted with.
C29_BackendConfigNeverModified ==
    /\ kube.backend_config # NoneRef =>
           kube.heap[kube.backend_config] = kube.before[kube.backend_config]
    /\ kube.pc \in {"repository-uri", "_build_docker_image", "run_kubernetes_job"}
       \/ kube.result = "returned"
       => /\ kube.kube_config \notin {NoneRef, kube.backend_config}
          /\ kube.heap[kube.kube_config]
             = SetItem(kube.before[kube.backend_config], "kube-job-template", "yaml_obj")
    /\ kube.result = "returned" => kube.used[3] = "yaml_obj"

\* C29 witness: a job has been submitted with the loaded template while the
\* dict given has no template.
C29_Witness ==
    /\ kube.result = "returned"
    /\ "kube-job-template" \notin DOMAIN kube.heap[kube.backend_config]
    /\ kube.heap[kube.kube_config]["kube-job-template"] = "yaml_obj"

-----------------------------------------------------------------------------
(* criteo_authentication: the credentials of the authenticated REST store *)

not_auth ==
    <<dispatch_vars, conda_envs, callers, conda_log, build, fs, docker_call, resolve, kube,
      util_vars>>

\* The most requests made of one store.
MaxRequests == 3

\* A token is the sequence of its pieces; "Bearer " is one piece.
Bearer == "Bearer "

\* What _generate_jwt_from_kerberos returns when the service answers 200
JwtResponses == {<<"jwt1">>, <<Bearer, "jwt1">>, <<Bearer, "jwt2">>}

\* CRITEO_ENV, "" when not set
CriteoEnvs == {"", "prod", "PROD", "preprod", "dev"}

\* str.lower
lower(text) == IF text = "PROD" THEN "prod" ELSE text

\* lines 16-19
get_tracking_server_uri(criteo_env) ==
    LET env == lower(IF criteo_env = "" THEN "preprod" ELSE criteo_env) IN
    IF env = "prod" THEN "https://mlflow.par.prod.crto.in"
    ELSE "https://mlflow.par.preprod.crto.in"

\* Mutant: CRITEO_ENV is compared as it is written.
jtc_url_CaseSensitive(criteo_env) ==
    IF criteo_env = "prod" THEN "https://jtc.prod.crto.in/spnego/generate/jwt"
    ELSE "https://jtc.preprod.crto.in/spnego/generate/jwt"

\* lines 40-43: the URL _generate_jwt_from_kerberos asks
jtc_url(criteo_env) ==
    IF lower(IF criteo_env = "" THEN "dev" ELSE criteo_env) = "prod"
    THEN "https://jtc.prod.crto.in/spnego/generate/jwt"
    ELSE "https://jtc.preprod.crto.in/spnego/generate/jwt"

\* Mutant: the token is stored as the service gave it.
replace_Nothing(text, old) == text

\* str.replace(old, ""), line 26
replace(text, old) == SelectSeq(text, LAMBDA piece : piece # old)

\* os.getenv(name, "")
getenv(value) == IF value.given THEN value.text ELSE <<>>

\* MLFLOW_TRACKING_TOKEN before the first request
AmbientTokens == {None, Some(<<"ambient">>)}

InitAuth ==
    /\ DispatchIdle
    /\ conda_envs = {} /\ callers = <<>> /\ conda_log = <<>>
    /\ build = <<>> /\ fs = {}
    /\ docker_call = <<>> /\ resolve = <<>> /\ kube = <<>> /\ UtilsIdle
    /\ \E criteo_env \in CriteoEnvs, token \in AmbientTokens :
         auth = [criteo_env |-> criteo_env, ambient |-> token, token |-> token, log |-> <<>>]

\* lines 24-30, _return_token(force_refresh_token), the service answering 200
ReturnToken ==
    /\ Len(auth.log) < MaxRequests
    /\ \E force_refresh_token \in BOOLEAN, jwt \in JwtResponses :
         LET stored == IF force_refresh_token THEN Some(replace(jwt, Bearer))
                       ELSE auth.token
         IN auth' = [auth EXCEPT
                !.token = stored,
                !.log = Append(auth.log,
                    [force |-> force_refresh_token,
                     jwt |-> IF force_refresh_token THEN jwt ELSE <<>>,
                     contacted |-> force_refresh_token,
                     jtc_url |-> IF force_refresh_token THEN jtc_url(auth.criteo_env)
                                 ELSE "",
                     result |-> "returned",
                     host |-> get_tracking_server_uri(auth.criteo_env),
                     token |-> getenv(stored)])]
    /\ UNCHANGED not_auth

\* lines 25-26 and 45-46: the service does not answer 200
ReturnTokenFails ==
    /\ Len(auth.log) < MaxRequests
    /\ auth' = [auth EXCEPT
           !.log = Append(auth.log,
               [force |-> TRUE, jwt |-> <<>>, contacted |-> TRUE,
                jtc_url |-> jtc_url(auth.criteo_env), result |-> "Exception",
                host |-> "", token |-> <<>>])]
    /\ UNCHANGED not_auth

NextAuth == ReturnToken \/ ReturnTokenFails

SpecAuth == InitAuth /\ [][NextAuth]_vars

-----------------------------------------------------------------------------
(* Properties of the credentials *)

\* The requests before request i that stored a token.
Refreshes(i) == {j \in 1..(i - 1) : auth.log[j].force /\ auth.log[j].result = "returned"}

LastRefresh(i) == CHOOSE j \in Refreshes(i) : \A k \in Refreshes(i) : k <= j

\* n times "Bearer "
Prefix(n) == [i \in 1..n |-> Bearer]

\* What every request does apart from the token of a request without refresh.
RequestsAsClaimed ==
    \A i \in DOMAIN auth.log :
        LET r == auth.log[i] IN
        /\ r.contacted <=> r.force
        /\ r.force /\ r.result = "returned" =>
               /\ Bearer \notin Range(r.token)
               /\ \E n \in 0..Len(r.jwt) : r.jwt = Prefix(n) \o r.token
               /\ r.token # <<>>
        /\ ~r.force => r.result = "returned"
        /\ r.result = "returned" =>
               r.host = IF auth.criteo_env \in {"prod", "PROD"}
                        THEN "https://mlflow.par.prod.crto.in"
                        ELSE "https://mlflow.par.preprod.crto.in"
        /\ i = Len(auth.log) /\ r.force /\ r.result = "returned" =>
               auth.token = Some(r.token)

\* C30 as claimed: a request without refresh returns the token the last
\* refresh stored, and the empty token when there was no refresh.
C30_StoredTokenOrEmpty ==
    /\ RequestsAsClaimed
    /\ \A i \in DOMAIN auth.log :
           ~auth.log[i].force =>
               auth.log[i].token = IF Refreshes(i) # {} THEN auth.log[LastRefresh(i)].token
                                   ELSE <<>>

\* C30: a request with force_refresh_token asks the JWT service, stores the
\* token without its "Bearer " prefix in MLFLOW_TRACKING_TOKEN and returns
\* it; a request without asks nothing and returns the value of
\* MLFLOW_TRACKING_TOKEN: the token the last refresh stored and, when there
\* was none, the value the variable had before, empty when it was not set;
\* the host is the tracking server URI.
C30_TokenOfTheEnvironment ==
    /\ RequestsAsClaimed
    /\ \A i \in DOMAIN auth.log :
           ~auth.log[i].force =>
               auth.log[i].token = IF Refreshes(i) # {} THEN auth.log[LastRefresh(i)].token
                                   ELSE IF auth.ambient.given THEN auth.ambient.text
                                   ELSE <<>>

\* C30 witness: a refresh stored jwt2 for "Bearer jwt2", a refresh failed and
\* the request after them returned jwt2.
C30_Witness ==
    /\ Len(auth.log) = 3
    /\ auth.log[1].jwt = <<Bearer, "jwt2">> /\ auth.log[1].token = <<"jwt2">>
    /\ auth.log[2].result = "Exception"
    /\ ~auth.log[3].force /\ auth.log[3].token = <<"jwt2">>

-----------------------------------------------------------------------------
(* Properties of the run record when dispatch fails *)

\* A call of the dispatcher, for the run, has raised.
FailedAfterRunExists ==
    \E i \in DOMAIN trace :
        /\ trace[i].ev \in Provisioning \cup CommandAssembly \cup Range(SyncLaunchSteps)
        /\ trace[i].id = active_run
        /\ trace[i].val = "raised"

\* C35: in synchronous mode, when run() has ended because validation of the
\* docker environment, the image build, the conda environment, the kubernetes
\* configuration, the assembly of the command or the launch of the process
\* failed after the run record was obtained, the run has a terminal status.
C35_FailedDispatchTerminatesRun ==
    (args.synchronous /\ pc = "done" /\ active_run # NoRun /\ FailedAfterRunExists)
    => is_terminated(runs[active_run])

\* C36: when the unsupported-backend error has been raised, dispatch has
\* created no run record and set no tag.
C36_UnsupportedBackendLeavesNoRun ==
    (pc = "done" /\ outcome.msg = "unsupported_execution_mode") =>
        /\ \A i \in RunIds : i # ExistingRunId => runs[i] = "absent"
        /\ \A i \in DOMAIN trace : trace[i].ev # "get_or_create_run"
        /\ tags = {}

-----------------------------------------------------------------------------
(* _invoke_mlflow_run_subprocess: the asynchronous local launch *)

not_run_cmd ==
    <<dispatch_vars, conda_envs, callers, conda_log, build, fs, docker_call, resolve, kube,
      auth, krb, metrics, example>>

\* parameters of run(): None when none were supplied, or the dict
ParameterSets ==
    {None, Some(<<>>), Some(<<<<"alpha", "1">>>>), Some(<<<<"alpha", "1">>, <<"beta", "2">>>>)}

RECURSIVE ParameterFlags(_)
\* lines 435-436
ParameterFlags(items) ==
    IF items = <<>> THEN <<>>
    ELSE <<Word("-P"), EnvToken(Head(items)[1], <<Head(items)[2]>>)>>
         \o ParameterFlags(Tail(items))

\* lines 424-437: the command, or the error of parameters.items() on None
_build_mlflow_run_cmd(uri, entry_point, storage_dir, use_conda, run_id, parameters) ==
    IF ~parameters.given
    THEN [raised |-> "AttributeError", cmd |-> <<>>]
    ELSE [raised |-> "",
          cmd |-> <<Word("mlflow"), Word("run"), Word(uri), Word("-e"), Word(entry_point),
                    Word("--run-id"), Word(run_id)>>
                  \o (IF storage_dir.given
                      THEN <<Word("--storage-dir"), Word(storage_dir.text)>> ELSE <<>>)
                  \o (IF ~use_conda THEN <<Word("--no-conda")>> ELSE <<>>)
                  \o ParameterFlags(parameters.text)]

InitRunCmd ==
    /\ DispatchIdle
    /\ conda_envs = {} /\ callers = <<>> /\ conda_log = <<>>
    /\ build = <<>> /\ fs = {}
    /\ docker_call = <<>> /\ resolve = <<>> /\ kube = <<>> /\ auth = <<>>
    /\ krb = <<>> /\ metrics = <<>> /\ example = <<>>
    /\ \E run_id \in {"run1", "run2"}, entry_point \in {"main", "train"},
          use_conda \in BOOLEAN, storage_dir \in {None, Some("/store")},
          parameters \in ParameterSets :
         run_cmd = [pc |-> "_build_mlflow_run_cmd", run_id |-> run_id,
                    entry_point |-> entry_point, use_conda |-> use_conda,
                    storage_dir |-> storage_dir, parameters |-> parameters,
                    mlflow_run_arr |-> <<>>, result |-> "pending", submitted |-> ""]

\* lines 475-479
RunCmdBuild ==
    /\ run_cmd.pc = "_build_mlflow_run_cmd"
    /\ LET built == _build_mlflow_run_cmd("work_dir", run_cmd.entry_point,
                        run_cmd.storage_dir, run_cmd.use_conda, run_cmd.run_id,
                        run_cmd.parameters)
       IN run_cmd' = IF built.raised # ""
                     THEN [run_cmd EXCEPT !.pc = "done", !.result = built.raised]
                     ELSE [run_cmd EXCEPT !.pc = "Popen", !.mlflow_run_arr = built.cmd]
    /\ UNCHANGED not_run_cmd

\* lines 480-482: the subprocess and the LocalSubmittedRun of the same run id
RunCmdPopen ==
    /\ run_cmd.pc = "Popen"
    /\ \E launched \in BOOLEAN :
         run_cmd' = IF launched
                    THEN [run_cmd EXCEPT !.pc = "done", !.result = "returned",
                                         !.submitted = run_cmd.run_id]
                    ELSE [run_cmd EXCEPT !.pc = "done", !.result = "OSError"]
    /\ UNCHANGED not_run_cmd

NextRunCmd == RunCmdBuild \/ RunCmdPopen

SpecRunCmd == InitRunCmd /\ [][NextRunCmd]_vars

\* C37: the asynchronous local launch, whatever the parameters and also when
\* there are none, builds a command with --run-id and the run id of the
\* SubmittedRun it returns, -P name=value once for each parameter,
\* --no-conda exactly when use_conda is false and --storage-dir exactly when
\* a storage directory is given.
C37_RunCommandCarriesTheRun ==
    run_cmd.pc # "_build_mlflow_run_cmd" =>
        LET cmd == run_cmd.mlflow_run_arr
            given == IF run_cmd.parameters.given THEN run_cmd.parameters.text ELSE <<>>
        IN /\ run_cmd.result # "AttributeError"
           /\ \E i \in DOMAIN cmd :
                  cmd[i] = Word("--run-id") /\ cmd[i + 1] = Word(run_cmd.run_id)
           /\ run_cmd.result = "returned" => run_cmd.submitted = run_cmd.run_id
           /\ Cardinality({i \in DOMAIN cmd : cmd[i] = Word("-P")}) = Len(given)
           /\ \A n \in DOMAIN given :
                  \E i \in DOMAIN cmd :
                      cmd[i] = Word("-P") /\ cmd[i + 1] = EnvToken(given[n][1], <<given[n][2]>>)
           /\ Word("--no-conda") \in Range(cmd) <=> ~run_cmd.use_conda
           /\ Word("--storage-dir") \in Range(cmd) <=> run_cmd.storage_dir.given

-----------------------------------------------------------------------------
(* Properties of the environment the credentials are for *)

\* C38: whatever CRITEO_ENV is (not set, prod in any case, anything else)
\* the JWT service asked for a token and the tracking server the credentials
\* are for are of the same environment: both prod or both preprod.
C38_SameEnvironment ==
    \A i \in DOMAIN auth.log :
        LET r == auth.log[i] IN
        r.contacted =>
            /\ r.jtc_url \in {"https://jtc.prod.crto.in/spnego/generate/jwt",
                              "https://jtc.preprod.crto.in/spnego/generate/jwt"}
            /\ r.result = "returned" =>
                   (r.jtc_url = "https://jtc.prod.crto.in/spnego/generate/jwt"
                    <=> r.host = "https://mlflow.par.prod.crto.in")
            /\ r.jtc_url = "https://jtc.prod.crto.in/spnego/generate/jwt"
               <=> get_tracking_server_uri(auth.criteo_env) = "https://mlflow.par.prod.crto.in"

\* C38 witness: with CRITEO_ENV=PROD a token of the prod JWT service has been
\* returned for the prod tracking server.
C38_Witness ==
    /\ auth.criteo_env = "PROD"
    /\ \E i \in DOMAIN auth.log :
           /\ auth.log[i].contacted /\ auth.log[i].result = "returned"
           /\ auth.log[i].jtc_url = "https://jtc.prod.crto.in/spnego/generate/jwt"
           /\ auth.log[i].host = "https://mlflow.par.prod.crto.in"

-----------------------------------------------------------------------------
(* _set_canonicalize_hostname_false: the generated Kerberos configuration *)

not_krb ==
    <<dispatch_vars, conda_envs, callers, conda_log, build, fs, docker_call, resolve, kube,
      auth, run_cmd, metrics, example>>

\* The longest configuration file, in lines.
MaxLines == 3

\* A line is the sequence of its words.
KrbLines ==
    {<<"[libdefaults]">>, <<"[realms]">>, <<"default_realm", "=", "CRITEO">>,
     <<"dns_canonicalize_hostname", "=", "true">>,
     <<"dns_canonicalize_hostname", "=", "false">>,
     <<"#", "dns_canonicalize_hostname", "=", "true">>}

KrbFiles == UNION {[1..n -> KrbLines] : n \in 0..MaxLines}

\* The line matches '^.*dns_canonicalize_hostname.*=.*'.
Matches(line) ==
    \E i, j \in DOMAIN line : i < j /\ line[i] = "dns_canonicalize_hostname" /\ line[j] = "="

\* Mutant: grep lets every line through.
grep_v_Nothing(lines) == lines

\* line 53: grep -vE, the lines that do not match
grep_v(lines) == SelectSeq(lines, LAMBDA line : ~Matches(line))

RECURSIVE sed(_)
\* lines 55-56: sed s/\[libdefaults\]/\[libdefaults\]\n  dns_canonicalize_hostname = false/,
\* the first [libdefaults] of a line is followed by a new line with the setting
sed(lines) ==
    IF lines = <<>> THEN <<>>
    ELSE LET line == Head(lines) IN
         (IF \E i \in DOMAIN line : line[i] = "[libdefaults]"
          THEN LET i == CHOOSE i \in DOMAIN line :
                            /\ line[i] = "[libdefaults]"
                            /\ \A j \in 1..(i - 1) : line[j] # "[libdefaults]"
               IN <<SubSeq(line, 1, i),
                    <<"dns_canonicalize_hostname", "=", "false">>
                    \o SubSeq(line, i + 1, Len(line))>>
          ELSE <<line>>)
         \o sed(Tail(lines))

InitKrb ==
    /\ DispatchIdle
    /\ conda_envs = {} /\ callers = <<>> /\ conda_log = <<>>
    /\ build = <<>> /\ fs = {}
    /\ docker_call = <<>> /\ resolve = <<>> /\ kube = <<>> /\ auth = <<>>
    /\ run_cmd = <<>> /\ metrics = <<>> /\ example = <<>>
    /\ \E platform \in {"linux", "win32"}, config_file \in KrbFiles :
         krb = [pc |-> "called", platform |-> platform, config_file |-> config_file,
                generated |-> None, KRB5_CONFIG |-> ""]

\* lines 50-59
SetCanonicalizeHostnameFalse ==
    /\ krb.pc = "called"
    /\ krb' = IF krb.platform # "win32"
              THEN [krb EXCEPT !.pc = "done",
                               !.generated = Some(sed(grep_v(krb.config_file))),
                               !.KRB5_CONFIG = "/tmp/krb.hadoop.jtc.conf"]
              ELSE [krb EXCEPT !.pc = "done"]
    /\ UNCHANGED not_krb

NextKrb == SetCanonicalizeHostnameFalse

SpecKrb == InitKrb /\ [][NextKrb]_vars

-----------------------------------------------------------------------------
(* Properties of the generated Kerberos configuration *)

SettingFalse == <<"dns_canonicalize_hostname", "=", "false">>

HasLibdefaults == \E i \in DOMAIN krb.config_file : krb.config_file[i] = <<"[libdefaults]">>

\* The generated file has the setting once for each [libdefaults] line, has
\* no other line with a setting of dns_canonicalize_hostname, and apart from
\* the setting has the lines `kept`, in order.
GeneratedFrom(kept) ==
    LET out == krb.generated.text IN
    /\ \E i \in DOMAIN out : out[i] = SettingFalse
    /\ \A i \in DOMAIN out : Matches(out[i]) => out[i] = SettingFalse
    /\ Cardinality({i \in DOMAIN out : out[i] = SettingFalse})
       = Cardinality({i \in DOMAIN krb.config_file : krb.config_file[i] = <<"[libdefaults]">>})
    /\ SelectSeq(out, LAMBDA line : line # SettingFalse)
       = kept

IsSetting(line) == line[1] = "dns_canonicalize_hostname"

\* C31 as claimed: for a file with a [libdefaults] line the generated file
\* has the line dns_canonicalize_hostname = false, none of the settings of
\* dns_canonicalize_hostname of the input, and every other line of the
\* input, in order.
C31_OnlySettingsRemoved ==
    (krb.generated.given /\ HasLibdefaults) => GeneratedFrom(SelectSeq(krb.config_file, LAMBDA line : ~IsSetting(line)))

\* C31: for a file with a [libdefaults] line the generated file has the line
\* dns_canonicalize_hostname = false after each [libdefaults] line, and no
\* line of the input in which dns_canonicalize_hostname is followed by "=",
\* a setting or a comment alike; every other line of the input is kept, in
\* order.
C31_MatchingLinesRemoved ==
    (krb.generated.given /\ HasLibdefaults) =>
        /\ GeneratedFrom(SelectSeq(krb.config_file, LAMBDA line : ~Matches(line)))
        /\ \A i \in DOMAIN krb.generated.text :
               krb.generated.text[i] = <<"[libdefaults]">>
               => krb.generated.text[i + 1] = SettingFalse

\* C31 witness: a file with [libdefaults], a setting to true and another
\* line has been rewritten.
C31_Witness ==
    /\ krb.generated.given
    /\ krb.config_file = <<<<"[libdefaults]">>, <<"dns_canonicalize_hostname", "=", "true">>,
                           <<"default_realm", "=", "CRITEO">>>>
    /\ krb.generated.text = <<<<"[libdefaults]">>, SettingFalse,
                              <<"default_realm", "=", "CRITEO">>>>

------------------------------------------------------------------------------
(* BatchMetricsLogger and the batch_metrics_logger context *)

not_metrics ==
    <<dispatch_vars, conda_envs, callers, conda_log, build, fs, docker_call, resolve, kube,
      auth, run_cmd, krb, example>>

\* The number of record_metrics calls of one context.
MaxCalls == 2

\* The largest number of metrics of one record_metrics call.
MaxMetrics == 3

\* line 11: the limit of one log_batch request, scaled down so that a buffer
\* of a few metrics is split.
MAX_METRICS_PER_BATCH == 2

\* The keys of the metrics dictionary of a call, in the dictionary's order.
MetricKeys == <<"loss", "acc", "lr", "val_loss">>

\* Time, in whole units: the time between two calls of record_metrics spent
\* training, and the time one _timed_log_batch takes.
TrainingTimes == {0, 10}
LogTimes == {0, 1}

NoTimestamp == [given |-> FALSE, at |-> 0]
Timestamp(t) == [given |-> TRUE, at |-> t]

\* Metric(key, value, timestamp, step), line 251; the value is carried along.
Metric(key, timestamp, step) == [key |-> key, timestamp |-> timestamp, step |-> step]

\* Mutant: the exception of the logging function is let through.
try_mlflow_log_Propagates(fails) == [raised |-> fails, warning |-> FALSE]

\* lines 20-27: an Exception of fn becomes a warning
try_mlflow_log(fails) == [raised |-> FALSE, warning |-> fails]

\* Mutant: the buffer is sent as one request.
metrics_slices_Whole(data) == IF data = <<>> THEN <<>> ELSE <<data>>

\* lines 213-216: data[i : i + MAX_METRICS_PER_BATCH] for i in
\* range(0, len(data), MAX_METRICS_PER_BATCH)
metrics_slices(data) ==
    [k \in 1..((Len(data) + MAX_METRICS_PER_BATCH - 1) \div MAX_METRICS_PER_BATCH) |->
        SubSeq(data, (k - 1) * MAX_METRICS_PER_BATCH + 1,
               IF k * MAX_METRICS_PER_BATCH < Len(data)
               THEN k * MAX_METRICS_PER_BATCH ELSE Len(data))]

\* lines 211-220: the logger b after _timed_log_batch, which takes `took` units
\* of time and in which the log_batch calls of the slices in `failed` fail.
\* An exception that leaves try_mlflow_log ends the loop at its slice.
_timed_log_batch(b, took, failed) ==
    LET slices == metrics_slices(b.data)
        results == [k \in DOMAIN slices |-> try_mlflow_log(k \in failed)]
        raising == {k \in DOMAIN slices : results[k].raised}
        sent == IF raising = {} THEN Len(slices)
                ELSE CHOOSE k \in raising : \A j \in raising : k <= j
        requests == [k \in 1..sent |-> [metrics |-> slices[k], ok |-> k \notin failed]]
        warned == Cardinality({k \in 1..sent : results[k].warning})
    IN  [b EXCEPT !.batches = @ \o requests,
                  !.warnings = @ + warned,
                  !.clock = @ + took,
                  !.raised = raising # {},
                  !.total_log_batch_time = IF raising = {} THEN @ + took ELSE @]

\* lines 207-209
_purge(b, took, failed) ==
    LET logged == _timed_log_batch(b, took, failed)
    IN  IF logged.raised THEN logged ELSE [logged EXCEPT !.data = <<>>, !.purged = TRUE]

\* lines 222-230
_should_purge(b) == b.total_training_time >= b.total_log_batch_time * 10

\* lines 243-251 of record_metrics(metrics, step), called `waited` units of
\* time after the previous call returned (or after the logger was made) with
\* the first `n` keys as its metrics: the training time and the buffer
Collected(b, waited, n, step) ==
    LET current_timestamp == b.clock + waited
        previous == IF b.previous_training_timestamp.given
                    THEN b.previous_training_timestamp.at ELSE current_timestamp
        training_time == current_timestamp - previous
        appended == [i \in 1..n |-> Metric(MetricKeys[i], current_timestamp * 1000, step)]
    IN  [b EXCEPT !.clock = current_timestamp,
                  !.total_training_time = @ + training_time,
                  !.data = @ \o appended,
                  !.recorded = @ \o appended,
                  !.calls = @ + 1, !.purged = FALSE]

\* lines 232-255
record_metrics(b, waited, n, step, took, failed) ==
    LET collected == Collected(b, waited, n, step)
        purged == IF _should_purge(collected) THEN _purge(collected, took, failed)
                  ELSE collected
    IN  IF purged.raised THEN purged
        ELSE [purged EXCEPT !.previous_training_timestamp = Timestamp(collected.clock)]

\* lines 198-205 and line 275: the logger of a context that was just entered.
\* Besides the fields of the logger, the record keeps the clock, what was
\* recorded, the log_batch requests made, the warnings given, whether the
\* last operation ran _purge to its end and whether it raised.
InitMetrics ==
    /\ DispatchIdle
    /\ conda_envs = {} /\ callers = <<>> /\ conda_log = <<>>
    /\ build = <<>> /\ fs = {}
    /\ docker_call = <<>> /\ resolve = <<>> /\ kube = <<>> /\ auth = <<>>
    /\ run_cmd = <<>> /\ krb = <<>> /\ example = <<>>
    /\ metrics = [pc |-> "body", last |-> "__init__", data |-> <<>>,
                  total_training_time |-> 0, total_log_batch_time |-> 0,
                  previous_training_timestamp |-> NoTimestamp,
                  clock |-> 0, calls |-> 0, raised |-> FALSE, purged |-> FALSE,
                  recorded |-> <<>>, batches |-> <<>>, warnings |-> 0]

\* The body of the with statement calls record_metrics and the buffer is kept.
RecordMetricsKeeps ==
    /\ metrics.pc = "body" /\ metrics.calls < MaxCalls
    /\ \E waited \in TrainingTimes, n \in 0..MaxMetrics :
         /\ ~_should_purge(Collected(metrics, waited, n, metrics.calls))
         /\ metrics' = [record_metrics(metrics, waited, n, metrics.calls, 0, {})
                           EXCEPT !.last = "record_metrics"]
    /\ UNCHANGED not_metrics

\* The body of the with statement calls record_metrics and the buffer is sent.
RecordMetricsPurges ==
    /\ metrics.pc = "body" /\ metrics.calls < MaxCalls
    /\ \E waited \in TrainingTimes, n \in 0..MaxMetrics, took \in LogTimes :
         /\ _should_purge(Collected(metrics, waited, n, metrics.calls))
         /\ \E failed \in SUBSET DOMAIN metrics_slices(
                              Collected(metrics, waited, n, metrics.calls).data) :
              LET after == record_metrics(metrics, waited, n, metrics.calls, took, failed)
              IN  metrics' = [after EXCEPT !.last = "record_metrics",
                                 !.pc = IF after.raised THEN "raised" ELSE @]
    /\ UNCHANGED not_metrics

\* lines 276-277: the body ends and the context is left, which purges
ExitContext ==
    /\ metrics.pc = "body"
    /\ \E took \in LogTimes, failed \in SUBSET DOMAIN metrics_slices(metrics.data) :
         LET after == _purge(metrics, took, failed)
         IN  metrics' = [after EXCEPT !.last = "_purge",
                            !.pc = IF after.raised THEN "raised" ELSE "closed"]
    /\ UNCHANGED not_metrics

\* line 276: an exception of the body is thrown into the generator at its
\* yield, which no try statement surrounds: line 277 is not run
BodyRaises ==
    /\ metrics.pc = "body"
    /\ metrics' = [metrics EXCEPT !.pc = "raised", !.last = "body"]
    /\ UNCHANGED not_metrics

NextMetrics == RecordMetricsKeeps \/ RecordMetricsPurges \/ ExitContext \/ BodyRaises

SpecMetrics == InitMetrics /\ [][NextMetrics]_vars

\* The metrics of the log_batch requests made so far, in the order sent.
RECURSIVE Submitted(_)
Submitted(requests) ==
    IF requests = <<>> THEN <<>>
    ELSE Head(requests).metrics \o Submitted(Tail(requests))

FailedBatches == {i \in DOMAIN metrics.batches : ~metrics.batches[i].ok}

\* C32: once the context is closed, by normal exit or by an exception of its
\* body, every metric given to record_metrics was submitted to log_batch and
\* the buffer is empty.
C32_ClosedMeansFlushed ==
    metrics # <<>> /\ metrics.pc \in {"closed", "raised"} =>
        /\ metrics.data = <<>>
        /\ Submitted(metrics.batches) = metrics.recorded

\* C33: when log_batch fails, record_metrics does not raise, there is a
\* warning for each failed request, the metrics of later calls are still
\* collected (everything recorded is either submitted or in the buffer), and
\* a later purge submits them and leaves the buffer empty.
C33_FailedBatchOnlyWarns ==
    metrics # <<>> /\ FailedBatches # {} =>
        /\ ~metrics.raised
        /\ metrics.pc # "raised" \/ metrics.last = "body"
        /\ metrics.warnings = Cardinality(FailedBatches)
        /\ Submitted(metrics.batches) \o metrics.data = metrics.recorded
        /\ metrics.purged => metrics.data = <<>>

\* A request failed, a later call recorded metrics, and the context was left
\* with those metrics sent in a later request that succeeded.
C33_Witness ==
    /\ metrics # <<>> /\ metrics.pc = "closed" /\ metrics.warnings = 1
    /\ \E i, j \in DOMAIN metrics.batches :
         /\ i < j /\ ~metrics.batches[i].ok /\ metrics.batches[j].ok
         /\ metrics.batches[i].metrics[1].step < metrics.batches[j].metrics[1].step
    /\ metrics.data = <<>>

\* C34: after every record_metrics call, ten times the total logging time is
\* at most the total training time.
C34_LoggingWithinTenPercent ==
    metrics # <<>> /\ metrics.last = "record_metrics" =>
        metrics.total_log_batch_time * 10 <= metrics.total_training_time

\* C39: when no log_batch request fails, the requests made and the buffer
\* together hold every recorded metric once and in the order recorded, a purge
\* leaves nothing in the buffer, and no request has more than
\* MAX_METRICS_PER_BATCH metrics.
C39_EachMetricOnceInOrder ==
    metrics # <<>> /\ FailedBatches = {} =>
        /\ Submitted(metrics.batches) \o metrics.data = metrics.recorded
        /\ metrics.purged => metrics.data = <<>>
        /\ \A i \in DOMAIN metrics.batches :
             Len(metrics.batches[i].metrics) <= MAX_METRICS_PER_BATCH

\* No request failed, a buffer larger than one request was split, and after
\* the last purge every recorded metric had been sent.
C39_Witness ==
    /\ metrics # <<>> /\ metrics.pc = "closed" /\ FailedBatches = {}
    /\ Len(metrics.recorded) > MAX_METRICS_PER_BATCH + 1
    /\ \E i \in DOMAIN metrics.batches :
         /\ i < Len(metrics.batches)
         /\ Len(metrics.batches[i].metrics) = MAX_METRICS_PER_BATCH
         /\ Len(metrics.batches[i + 1].metrics) < MAX_METRICS_PER_BATCH
         /\ metrics.batches[i].metrics[1].step = metrics.batches[i + 1].metrics[1].step
    /\ Submitted(metrics.batches) = metrics.recorded

------------------------------------------------------------------------------
(* resolve_input_example_and_signature *)

not_example ==
    <<dispatch_vars, conda_envs, callers, conda_log, build, fs, docker_call, resolve, kube,
      auth, run_cmd, krb, metrics>>

\* What a call of one of the two functions does: it returns a value, which
\* may be None, or it raises an Exception with a message.
Gives(value) == [raises |-> FALSE, value |-> value, msg |-> ""]
Fails(msg) == [raises |-> TRUE, value |-> None, msg |-> msg]

GetInputExampleOutcomes == {Gives(Some("rows")), Gives(None), Fails("no data"), Fails("empty")}
InferModelSignatureOutcomes == {Gives(Some("schema")), Gives(None), Fails("unsupported type")}

\* Mutant: the input example is always gathered.
needs_input_example_Always(log_input_example, log_model_signature) == TRUE

\* line 170
needs_input_example(log_input_example, log_model_signature) ==
    log_input_example \/ log_model_signature

\* line 183: the message of the exception raised for a missing input example.
\* With no failure message the concatenation of str and None is a TypeError.
could_not_sample(input_example_failure_msg) ==
    IF input_example_failure_msg.given
    THEN <<"could not sample data to infer model signature: ",
           input_example_failure_msg.text>>
    ELSE <<"can only concatenate str (not \"NoneType\") to str">>

\* lines 141-142 and 166-168: the call with its arguments and first locals
InitExample ==
    /\ DispatchIdle
    /\ conda_envs = {} /\ callers = <<>> /\ conda_log = <<>>
    /\ build = <<>> /\ fs = {}
    /\ docker_call = <<>> /\ resolve = <<>> /\ kube = <<>> /\ auth = <<>>
    /\ run_cmd = <<>> /\ krb = <<>> /\ metrics = <<>>
    /\ \E log_input_example \in BOOLEAN, log_model_signature \in BOOLEAN,
          get_input_example \in GetInputExampleOutcomes,
          infer_model_signature \in InferModelSignatureOutcomes :
         example = [pc |-> "line 170",
                    log_input_example |-> log_input_example,
                    log_model_signature |-> log_model_signature,
                    get_input_example |-> get_input_example,
                    infer_model_signature |-> infer_model_signature,
                    input_example |-> None, input_example_user_msg |-> None,
                    input_example_failure_msg |-> None,
                    model_signature |-> None, model_signature_user_msg |-> None,
                    get_calls |-> 0, infer_calls |-> <<>>, warnings |-> <<>>,
                    result |-> <<>>]

\* lines 170-176
GatherInputExample ==
    /\ example.pc = "line 170"
    /\ example' =
         IF ~needs_input_example(example.log_input_example, example.log_model_signature)
         THEN [example EXCEPT !.pc = "line 179"]
         ELSE IF example.get_input_example.raises
         THEN [example EXCEPT
                  !.pc = "line 179", !.get_calls = @ + 1,
                  !.input_example_failure_msg = Some(example.get_input_example.msg),
                  !.input_example_user_msg =
                      Some(<<"Failed to gather input example: ",
                             example.get_input_example.msg>>)]
         ELSE [example EXCEPT
                  !.pc = "line 179", !.get_calls = @ + 1,
                  !.input_example = example.get_input_example.value]
    /\ UNCHANGED not_example

\* lines 178-187
InferSignature ==
    /\ example.pc = "line 179"
    /\ example' =
         IF ~example.log_model_signature
         THEN [example EXCEPT !.pc = "line 189"]
         ELSE IF example.input_example = None
         THEN [example EXCEPT
                  !.pc = "line 189",
                  !.model_signature_user_msg =
                      Some(<<"Failed to infer model signature: ">>
                           \o could_not_sample(example.input_example_failure_msg))]
         ELSE IF example.infer_model_signature.raises
         THEN [example EXCEPT
                  !.pc = "line 189",
                  !.infer_calls = Append(@, example.input_example),
                  !.model_signature_user_msg =
                      Some(<<"Failed to infer model signature: ",
                             example.infer_model_signature.msg>>)]
         ELSE [example EXCEPT
                  !.pc = "line 189",
                  !.infer_calls = Append(@, example.input_example),
                  !.model_signature = example.infer_model_signature.value]
    /\ UNCHANGED not_example

\* lines 189-192: logger.warning
WarnUser ==
    /\ example.pc = "line 189"
    /\ example' =
         [example EXCEPT
            !.pc = "line 194",
            !.warnings =
                (IF example.log_input_example /\ example.input_example_user_msg.given
                 THEN <<example.input_example_user_msg.text>> ELSE <<>>)
                \o (IF example.log_model_signature /\ example.model_signature_user_msg.given
                    THEN <<example.model_signature_user_msg.text>> ELSE <<>>)]
    /\ UNCHANGED not_example

\* line 194
ReturnExampleAndSignature ==
    /\ example.pc = "line 194"
    /\ example' =
         [example EXCEPT
            !.pc = "returned",
            !.result = [input_example |-> IF example.log_input_example
                                          THEN example.input_example ELSE None,
                        model_signature |-> example.model_signature]]
    /\ UNCHANGED not_example

NextExample ==
    GatherInputExample \/ InferSignature \/ WarnUser \/ ReturnExampleAndSignature

SpecExample == InitExample /\ [][NextExample]_vars

\* C40: the call ends by returning, whatever the two functions raise;
\* get_input_example is called at most once and only when a flag is set;
\* infer_model_signature is called only when log_model_signature is set and
\* with the input example that was obtained; the input example returned is
\* None when log_input_example is false, and the signature returned is None
\* when log_model_signature is false or one of the two steps failed.
C40_ExceptionsContained ==
    example # <<>> =>
        /\ example.pc \in {"line 170", "line 179", "line 189", "line 194", "returned"}
        /\ example.get_calls <= 1
        /\ example.get_calls = 1 =>
               example.log_input_example \/ example.log_model_signature
        /\ example.pc # "line 170"
               /\ (example.log_input_example \/ example.log_model_signature)
               => example.get_calls = 1
        /\ Len(example.infer_calls) <= 1
        /\ \A i \in DOMAIN example.infer_calls :
               /\ example.log_model_signature
               /\ ~example.get_input_example.raises
               /\ example.get_input_example.value.given
               /\ example.infer_calls[i] = example.get_input_example.value
        /\ example.pc = "returned" =>
               /\ ~example.log_input_example => example.result.input_example = None
               /\ ~example.log_model_signature
                      \/ example.get_input_example.raises
                      \/ ~example.get_input_example.value.given
                      \/ example.infer_model_signature.raises
                  => example.result.model_signature = None

\* Only the signature is asked for, the input example is obtained and
\* inferring the signature raises: the call returns (None, None) after one
\* call of each function.
C40_Witness ==
    /\ example # <<>> /\ example.pc = "returned"
    /\ ~example.log_input_example /\ example.log_model_signature
    /\ example.get_input_example = Gives(Some("rows"))
    /\ example.infer_model_signature = Fails("unsupported type")
    /\ example.get_calls = 1 /\ example.infer_calls = <<Some("rows")>>
    /\ example.result = [input_example |-> None, model_signature |-> None]
    /\ example.warnings = <<<<"Failed to infer model signature: ", "unsupported type">>>>

====
